---- MODULE Spec2Model ----
(***************************************************************************)
(* Model of the media-api video job orchestrator                          *)
(* (src/media-api/app/main.py): the in-memory job registry JOBS, the      *)
(* background task _run_job of every accepted job, the synthesis stage    *)
(* _process_script_groups, the timing resolver, the render invoker, the   *)
(* path resolution helpers and the HTTP handlers that create and poll     *)
(* jobs.                                                                  *)
(*                                                                        *)
(* Conventions.                                                           *)
(*  - An optional value (Python None or a value) is a sequence: None is   *)
(*    <<>>, a present value x is <<x>>.                                   *)
(*  - A duration in seconds is an integer number of milliseconds (the     *)
(*    code rounds every duration to three decimals).                      *)
(*  - A text is a sequence of one-character strings.                      *)
(*  - A client path string is the sequence of its "/"-separated tokens    *)
(*    ("/a//b" is <<"", "a", "", "b">>; the empty string is <<>>); a      *)
(*    resolved filesystem path is the sequence of its segments from the   *)
(*    filesystem root.                                                    *)
(*  - The asyncio event loop runs one coroutine at a time and switches    *)
(*    only at an await that suspends; every action below is a piece of    *)
(*    code between two such points (or finer).                            *)
(***************************************************************************)
EXTENDS Integers, Sequences, FiniteSets, TLC

None == <<>>
Some(x) == <<x>>
IsSet(o) == o # <<>>
Val(o) == o[1]

(***************************************************************************)
(* Bounds of the model.                                                    *)
(***************************************************************************)
\* number of submissions accepted in one run of the service
MaxJobs == 2

(***************************************************************************)
(* Configuration (environment variables read at import time).              *)
(***************************************************************************)
PROJECTS_ROOT == <<"remotion-projects">>
VIDEO_OUT_DIR == <<"remotion-out">>
HOOK_MARGIN_SEC == 800
MIN_HOOK_SEC == 3000
DEFAULT_CHAR_PER_SEC == 8
HOOK_AUDIO_PATH == <<"media", "audio", "hook.wav">>
DefaultFps == 30

(***************************************************************************)
(* Small helpers on sequences.                                             *)
(***************************************************************************)
\* the element of a one-element set.  Only({e(x) : x \in {a}}) is e with the
\* local variable x holding the value of a.
Only(S) == CHOOSE y \in S : TRUE

Max(a, b) == IF a >= b THEN a ELSE b

IsPrefix(p, s) == Len(p) <= Len(s) /\ SubSeq(s, 1, Len(p)) = p

RECURSIVE SumSeq(_)
SumSeq(s) == IF s = <<>> THEN 0 ELSE Head(s) + SumSeq(Tail(s))

RECURSIVE Filter(_, _)
\* the sub-sequence of s whose elements are not in the set drop
Filter(s, drop) ==
    IF s = <<>> THEN <<>>
    ELSE IF Head(s) \in drop THEN Filter(Tail(s), drop)
         ELSE <<Head(s)>> \o Filter(Tail(s), drop)

RECURSIVE LStrip(_, _)
\* str.lstrip(chars) on a sequence: drop the leading elements that are in chars
LStrip(s, chars) ==
    IF s # <<>> /\ Head(s) \in chars THEN LStrip(Tail(s), chars) ELSE s

RECURSIVE RStrip(_, _)
RStrip(s, chars) ==
    IF s # <<>> /\ s[Len(s)] \in chars THEN RStrip(SubSeq(s, 1, Len(s) - 1), chars) ELSE s

Whitespace == {" "}

\* str.strip() of a text
Strip(text) == RStrip(LStrip(text, Whitespace), Whitespace)

\* (x or "") for an optional text
TextOrEmpty(o) == IF IsSet(o) THEN Val(o) ELSE <<>>

(***************************************************************************)
(* Client path strings: tokens between "/" separators.                     *)
(***************************************************************************)
\* str.lstrip("/\\") of a path string: every leading "/" goes, which leaves
\* the tokens after the leading empty ones; a string made of "/" only
\* becomes the empty string.
LStripSlash(tokens) ==
    LET rest == LStrip(tokens, {""})
    IN  rest

\* variant of the filter that keeps the ".." components
RelPartsKeepsDotDot(tokens) == Filter(tokens, {"", "."})

\* Path(clean).parts followed by the filter of _safe_join: pathlib drops
\* empty and "." components itself, the comprehension drops "..".
RelParts(tokens) == Filter(tokens, {"", ".", ".."})

RECURSIVE Resolve(_)
\* Path.resolve() on a tree without symbolic links: ".." pops a segment.
Resolve(path) ==
    IF path = <<>> THEN <<>>
    ELSE LET init == Resolve(SubSeq(path, 1, Len(path) - 1))
             last == path[Len(path)]
         IN  IF last = ".." THEN (IF init = <<>> THEN <<>> ELSE SubSeq(init, 1, Len(init) - 1))
             ELSE IF last \in {"", "."} THEN init
             ELSE Append(init, last)


\* str.strip() of a path string whose only whitespace-bearing token is " ":
\* a leading or trailing blank token is emptied, a blank string is "".
StripLeft(tokens) ==
    IF tokens # <<>> /\ Head(tokens) = " "
    THEN (IF Len(tokens) = 1 THEN <<>> ELSE <<"">> \o Tail(tokens))
    ELSE tokens

StripRight(tokens) ==
    IF tokens # <<>> /\ tokens[Len(tokens)] = " "
    THEN (IF Len(tokens) = 1 THEN <<>> ELSE SubSeq(tokens, 1, Len(tokens) - 1) \o <<"">>)
    ELSE tokens

StripPath(tokens) == StripRight(StripLeft(tokens))

\* clean.startswith(prefix) for a prefix string that ends with "/": the
\* tokens of the prefix (without the empty token after its last "/") begin
\* the string and at least one more token follows.
StartsWithDir(tokens, prefix) ==
    Len(tokens) > Len(prefix) /\ SubSeq(tokens, 1, Len(prefix)) = prefix

\* str(full).startswith(str(base_resolved)) on resolved paths.  The code's
\* test is on the strings; on segment sequences it is read as: base is a
\* prefix of full.
PathStartsWith(full, base) == IsPrefix(base, full)

Prefixes(path) == {SubSeq(path, 1, k) : k \in 1..Len(path)}

Parent(path) == SubSeq(path, 1, Len(path) - 1)

\* Path.mkdir(parents=True, exist_ok=True) succeeds unless the path or one of
\* its ancestors is a regular file.
MkdirOk(path, fileSet) == Prefixes(path) \cap fileSet = {}

\* _project_dir: PROJECTS_ROOT / video_id (the directory is created).
ProjectDir(video_id) == PROJECTS_ROOT \o <<video_id>>

\* variant of _safe_join that joins and resolves without filter or test
SafeJoinNaive(base, relative) ==
    [error |-> None, path |-> Resolve(base \o LStripSlash(StripPath(relative)))]

\* the containment test of _safe_join on the resolved path and base
CheckUnder(full, base_resolved) ==
    IF ~PathStartsWith(full, base_resolved)
    THEN [error |-> Some("unsafe path detected"), path |-> full]
    ELSE [error |-> None, path |-> full]

\* _safe_join: [error, path]; the caller applies the mkdir of path's parent.
SafeJoin(base, relative) ==
    Only({CheckUnder(full, Resolve(base)) :
            full \in {Resolve(base \o parts) :
                        parts \in {RelParts(clean) :
                                     clean \in {LStripSlash(stripped) :
                                                  stripped \in {StripPath(value) :
                                                                  value \in {relative}}}}}})

\* PARAM_TEMPLATE.format(video_id=...) = "{video_id}/parameter.json"
ParamTemplate(video_id) == <<video_id, "parameter.json">>

\* _parameter_path
ParameterPath(video_id) ==
    Only({SafeJoin(PROJECTS_ROOT, relative) : relative \in {StripPath(ParamTemplate(video_id))}})

\* VIDEO_OUT_DIR / f"{video_id}.mp4" of create_job
ConflictVideoPath(video_id) == VIDEO_OUT_DIR \o <<video_id \o ".mp4">>

\* REMOTION_OUTPUT_TEMPLATE.format(...).lstrip("/\\") under VIDEO_OUT_DIR, resolved
RenderOutputPath(video_id) ==
    Only({Resolve(VIDEO_OUT_DIR \o relative) : relative \in {LStripSlash(<<video_id \o ".mp4">>)}})

\* the prefix loop of _normalize_voice_path on the stripped value: the first
\* prefix that begins the string is cut off
CutProjectPrefix(video_id, clean) ==
    IF StartsWithDir(clean, <<"", "data", "projects", video_id>>)
    THEN SubSeq(clean, 5, Len(clean))
    ELSE IF StartsWithDir(clean, <<"data", "projects", video_id>>)
    THEN SubSeq(clean, 4, Len(clean))
    ELSE IF StartsWithDir(clean, <<"", video_id>>)
    THEN SubSeq(clean, 3, Len(clean))
    ELSE IF StartsWithDir(clean, <<video_id>>)
    THEN SubSeq(clean, 2, Len(clean))
    ELSE clean

\* _normalize_voice_path
NormalizeVoicePath(video_id, value) ==
    IF value = <<>> THEN <<>>
    ELSE Only({LStripSlash(cut) :
                 cut \in {CutProjectPrefix(video_id, clean) : clean \in {StripPath(value)}}})

Pad2(n) == IF n < 10 THEN "0" \o ToString(n) ELSE ToString(n)

\* variant of the derived name that uses the 0-based indices as they are
DefaultVoiceNameZeroBased(video_id, group_index, item_index) ==
    <<"media", "audio",
      video_id \o "-" \o Pad2(group_index) \o "-" \o Pad2(item_index) \o ".wav">>

\* _default_voice_name (group_index and item_index are 0-based)
DefaultVoiceName(video_id, group_index, item_index) ==
    <<"media", "audio",
      video_id \o "-" \o Pad2(group_index + 1) \o "-" \o Pad2(item_index + 1) \o ".wav">>

\* _resolve_voice_file after the normalization: [error, path]
ResolveNormalized(project, target_rel) ==
    IF target_rel = <<>>
    THEN [error |-> Some("voice path is empty"), path |-> <<>>]
    ELSE SafeJoin(project, target_rel)

\* _resolve_voice_file: [error, path]
ResolveVoiceFile(video_id, voice_value) ==
    Only({ResolveNormalized(ProjectDir(video_id), target_rel) :
            target_rel \in {NormalizeVoicePath(video_id, voice_value)}})

\* _estimate_voice_sec: max(0.4, length / max(DEFAULT_CHAR_PER_SEC, 1)) in ms
EstimateVoiceSec(text) ==
    LET length == Len(Strip(TextOrEmpty(text)))
    IN  IF length = 0 THEN 0
        ELSE Max(400, (length * 1000) \div Max(DEFAULT_CHAR_PER_SEC, 1))


(***************************************************************************)
(* The parameter document and the request (pydantic models).               *)
(***************************************************************************)
\* the extra attributes (model_extra) of an item or a scene that the voice
\* resolution reads: none of them is there
NoExtra ==
    [voicevoxSpeaker |-> None, ttsSpeakerId |-> None, voiceSpeaker |-> None,
     voicePreset |-> None, voiceTts |-> None]

\* the extra attributes voiceSpeaker (a string), voicePreset (a string) and
\* voiceTts (a settings object)
Extra(voiceSpeaker, voicePreset, voiceTts) ==
    [NoExtra EXCEPT !.voiceSpeaker = voiceSpeaker, !.voicePreset = voicePreset,
                    !.voiceTts = voiceTts]

\* ScriptItem
Item(text, voice, voiceSec) ==
    [type |-> "talk", speaker |-> None, text |-> text, voice |-> voice,
     voiceSec |-> voiceSec, extra |-> NoExtra]

\* ScriptGroupDraft
Group(id, gapSec, items) ==
    [id |-> id, gapSec |-> gapSec, keepStack |-> TRUE, items |-> items]

\* the extra attribute "audio" of a scene: absent, a plain path string, or a
\* descriptor object with src, volume, startFrom and durationSec
NoAudio == [kind |-> "none", src |-> None, volume |-> None, startFrom |-> None,
            durationSec |-> None]
AudioStr(path) == [kind |-> "str", src |-> Some(path), volume |-> None,
                   startFrom |-> None, durationSec |-> None]
AudioDict(src, durationSec) == [kind |-> "dict", src |-> src, volume |-> Some(1),
                                startFrom |-> Some(0), durationSec |-> durationSec]

\* SceneDraft with the extra attributes text and audio
Scene(startFrame, durationSec, text, audio) ==
    [startFrame |-> startFrame, durationSec |-> durationSec, text |-> text,
     audio |-> audio, extra |-> NoExtra]

\* ParameterJsonDraft
Parameter(fps, durationInFrames, scenes, scriptGroups) ==
    [spec |-> [fps |-> fps, durationInFrames |-> durationInFrames],
     meta |-> [videoId |-> None],
     scenes |-> scenes,
     scriptGroups |-> scriptGroups,
     vars |-> None]

\* a settings object: a mapping from settings keys to values
EmptyDict == [key \in {} |-> 0]

\* an entry of a preset table: a settings object, or a value that is not a
\* mapping
Dict(settings) == [kind |-> "dict", items |-> settings]
NotADict == [kind |-> "other", items |-> EmptyDict]

\* JobOptions
Options(render, overwrite, generateAudio, dryRun) ==
    [render |-> render, overwrite |-> overwrite, generateAudio |-> generateAudio,
     dryRun |-> dryRun]

\* VideoJobRequest
Request(videoId, parameter, options) ==
    [videoId |-> videoId, parameter |-> parameter, options |-> options,
     voicePresets |-> None]

(***************************************************************************)
(* The job registry.                                                       *)
(***************************************************************************)
\* JobRecord as create_job builds it (timestamps are not modelled)
JobRecord(job_id, request) ==
    [job_id |-> job_id, request |-> request, status |-> "queued",
     progress |-> [stage |-> "waiting"], result |-> None, error |-> None]

\* variant of the merge that replaces the whole mapping by the patch
MergeProgressReplaces(old, patch) == patch

\* {**old, **patch}
MergeProgress(old, patch) ==
    [k \in (DOMAIN old) \cup (DOMAIN patch) |->
        IF k \in DOMAIN patch THEN patch[k] ELSE old[k]]

NoPatch == [k \in {} |-> 0]

\* variant of _update_job that never writes the status
UpdateJobIgnoringStatus(registry, job_id, status, progress, result, error) ==
    [registry EXCEPT ![job_id] =
        [@ EXCEPT !.progress = IF DOMAIN progress # {} THEN MergeProgress(@, progress) ELSE @,
                  !.result = IF IsSet(result) THEN result ELSE @,
                  !.error = IF IsSet(error) THEN error ELSE @]]

\* _update_job: the registry after the update of job_id; status, result and
\* error are optional (None leaves the field alone), progress is the patch
UpdateJob(registry, job_id, status, progress, result, error) ==
    [registry EXCEPT ![job_id] =
        [@ EXCEPT !.status = IF IsSet(status) THEN Val(status) ELSE @,
                  !.progress = IF DOMAIN progress # {} THEN MergeProgress(@, progress) ELSE @,
                  !.result = IF IsSet(result) THEN result ELSE @,
                  !.error = IF IsSet(error) THEN error ELSE @]]

\* variant of _job_summary that takes the result from the record as it was
\* created
JobSummaryBeforeResult(job) ==
    [jobId |-> job.job_id, status |-> job.status, videoId |-> job.request.videoId,
     progress |-> job.progress, result |-> None, error |-> job.error]

\* _job_summary
JobSummary(job) ==
    [jobId |-> job.job_id, status |-> job.status, videoId |-> job.request.videoId,
     progress |-> job.progress, result |-> job.result, error |-> job.error]


(***************************************************************************)
(* Timing resolver.                                                        *)
(***************************************************************************)
\* a value of the render spec mapping: the key is absent, a number, or a
\* value float() rejects
Absent == [kind |-> "absent", n |-> 0]
Num(n) == [kind |-> "num", n |-> n]
NotANumber == [kind |-> "bad", n |-> 0]

\* round(a / b) for a >= 0, b > 0
RoundDiv(a, b) == (2 * a + b) \div (2 * b)

\* (x or y) for an optional number x: None and 0 are falsy
OrElse(o, y) == IF IsSet(o) /\ Val(o) # 0 THEN Val(o) ELSE y

RECURSIVE HookItemsTotalGapAfterEach(_, _, _)
\* variant of the loop that adds the gap after every item, the last included
HookItemsTotalGapAfterEach(items, gap, idx) ==
    IF idx > Len(items) THEN 0
    ELSE OrElse(items[idx].voiceSec, EstimateVoiceSec(items[idx].text)) + gap
         + HookItemsTotalGapAfterEach(items, gap, idx + 1)

RECURSIVE HookItemsTotal(_, _, _)
\* the loop of _compute_scene0_duration over first_group.items from index idx
HookItemsTotal(items, gap, idx) ==
    IF idx > Len(items) THEN 0
    ELSE OrElse(items[idx].voiceSec, EstimateVoiceSec(items[idx].text))
         + (IF idx < Len(items) THEN gap ELSE 0)
         + HookItemsTotal(items, gap, idx + 1)

\* variant of the timing resolver that never looks at the stated duration
ComputeScene0DurationFromItems(parameter) ==
    IF parameter.scenes = <<>> \/ parameter.scriptGroups = <<>>
    THEN [hook |-> None, parameter |-> parameter]
    ELSE LET first_group == parameter.scriptGroups[1]
             gap == OrElse(first_group.gapSec, 0)
             total == HookItemsTotal(first_group.items, gap, 1) + HOOK_MARGIN_SEC
             audio_duration == Max(MIN_HOOK_SEC, total)
         IN  [hook |-> Some(audio_duration),
              parameter |-> [parameter EXCEPT !.scenes[1].durationSec = Some(audio_duration)]]

\* variant of the timing resolver that returns the duration without writing
\* it to scene 0
ComputeScene0DurationUnwritten(parameter) ==
    IF parameter.scenes = <<>> \/ parameter.scriptGroups = <<>>
    THEN [hook |-> None, parameter |-> parameter]
    ELSE LET audio == parameter.scenes[1].audio
             stated == IF audio.kind = "dict" THEN audio.durationSec ELSE None
             first_group == parameter.scriptGroups[1]
             gap == OrElse(first_group.gapSec, 0)
             total == HookItemsTotal(first_group.items, gap, 1) + HOOK_MARGIN_SEC
             audio_duration == IF IsSet(stated) /\ Val(stated) # 0 THEN Val(stated)
                               ELSE Max(MIN_HOOK_SEC, total)
         IN  [hook |-> Some(audio_duration), parameter |-> parameter]

\* _compute_scene0_duration: [hook, parameter], the returned value and the
\* document after the call
ComputeScene0Duration(parameter) ==
    IF parameter.scenes = <<>> \/ parameter.scriptGroups = <<>>
    THEN [hook |-> None, parameter |-> parameter]
    ELSE LET first_scene == parameter.scenes[1]
             audio == first_scene.audio
             stated == IF audio.kind = "dict" THEN audio.durationSec ELSE None
             first_group == parameter.scriptGroups[1]
             gap == OrElse(first_group.gapSec, 0)
             total == HookItemsTotal(first_group.items, gap, 1) + HOOK_MARGIN_SEC
             audio_duration == IF IsSet(stated) /\ Val(stated) # 0 THEN Val(stated)
                               ELSE Max(MIN_HOOK_SEC, total)
         IN  [hook |-> Some(audio_duration),
              parameter |-> [parameter EXCEPT !.scenes[1].durationSec = Some(audio_duration)]]

RECURSIVE SceneSecs(_)
\* [sc.durationSec for sc in parameter.scenes if sc.durationSec]
SceneSecs(scenes) ==
    IF scenes = <<>> THEN <<>>
    ELSE (IF OrElse(Head(scenes).durationSec, 0) # 0
          THEN <<Val(Head(scenes).durationSec)>> ELSE <<>>) \o SceneSecs(Tail(scenes))

\* variant of the total duration that prefers frames / fps to the scenes
TotalSecFramesFirst(parameter) ==
    LET secs == SceneSecs(parameter.scenes)
        fps == parameter.spec.fps
        frames == parameter.spec.durationInFrames
    IN  IF frames.kind = "num" /\ frames.n > 0 /\ fps.kind = "num" /\ fps.n > 0
        THEN Some(RoundDiv(frames.n * 1000, fps.n))
        ELSE IF secs # <<>> /\ SumSeq(secs) # 0 THEN Some(SumSeq(secs)) ELSE None

\* the fallback frames / fps raises: float() of a value that is not a
\* number, or a division by zero
FallbackRaises(spec) ==
    LET fps == spec.fps
        frames == spec.durationInFrames
    IN  \/ fps.kind = "bad"
        \/ frames.kind = "bad"
        \/ frames.kind = "num" /\ frames.n > 0 /\ fps.kind = "num" /\ fps.n = 0

\* variant of the total-duration block without its except clause: what the
\* fallback raises reaches _run_job
TotalSecErrorUnabsorbed(parameter) ==
    LET secs == SceneSecs(parameter.scenes)
    IN  IF (secs = <<>> \/ SumSeq(secs) = 0) /\ FallbackRaises(parameter.spec)
        THEN Some("total duration failed")
        ELSE None

\* the exception that leaves the total-duration block of _run_job: none,
\* "except Exception" absorbs whatever the block raises
TotalSecError(parameter) == None

\* the total duration of _run_job: None when it is not computable
TotalSec(parameter) ==
    LET secs == SceneSecs(parameter.scenes)
        fromScenes == IF secs # <<>> THEN SumSeq(secs) ELSE 0
        fps == parameter.spec.fps
        frames == parameter.spec.durationInFrames
        fpsVal == IF fps.kind = "absent" THEN DefaultFps ELSE fps.n
        framesVal == IF frames.kind = "absent" THEN 0 ELSE frames.n
        raised == FallbackRaises(parameter.spec)
        total == IF fromScenes # 0 THEN fromScenes
                 ELSE IF raised THEN 0
                 ELSE IF framesVal > 0 THEN RoundDiv(framesVal * 1000, fpsVal)
                 ELSE 0
    IN  IF total # 0 THEN Some(total) ELSE None

(***************************************************************************)
(* Speaker and settings resolution.                                        *)
(***************************************************************************)
\* VOICEVOX_SPEAKERS without VOICEVOX_SPEAKER_MAP: left 8, right 3
VOICEVOX_SPEAKERS == ("left" :> 8) @@ ("right" :> 3)

\* the first value of VOICEVOX_SPEAKERS
DEFAULT_VOICEVOX_SPEAKER == VOICEVOX_SPEAKERS["left"]

HOOK_VOICEVOX_SPEAKER == DEFAULT_VOICEVOX_SPEAKER

\* int(s) of a string: the strings of one decimal digit are numbers
IntOf(s) ==
    LET digit == ("0" :> 0) @@ ("1" :> 1) @@ ("2" :> 2) @@ ("3" :> 3) @@ ("4" :> 4)
                 @@ ("5" :> 5) @@ ("6" :> 6) @@ ("7" :> 7) @@ ("8" :> 8) @@ ("9" :> 9)
    IN  IF s \in DOMAIN digit THEN Some(digit[s]) ELSE None

\* dict.update: the entries of b replace those of a
Update(a, b) ==
    [key \in DOMAIN a \cup DOMAIN b |-> IF key \in DOMAIN b THEN b[key] ELSE a[key]]

\* the entries of a preset table that are settings objects
DictEntries(table) ==
    [name \in {n \in DOMAIN table : table[n].kind = "dict"} |-> table[name].items]

\* _extract_voice_presets: the presets of vars.voicePresets, then those of
\* the request, which replace document presets of the same name
ExtractVoicePresets(parameter, request_presets) ==
    LET fromDocument == IF IsSet(parameter.vars) /\ IsSet(Val(parameter.vars).voicePresets)
                        THEN DictEntries(Val(Val(parameter.vars).voicePresets))
                        ELSE EmptyDict
        fromRequest == IF IsSet(request_presets)
                       THEN DictEntries(Val(request_presets)) ELSE EmptyDict
    IN  Update(fromDocument, fromRequest)

\* _resolve_speaker_id: a numeric override, else the speaker of the item's
\* speaker key, else the default speaker
ResolveSpeakerId(item) ==
    LET Truthy(o) == IsSet(o) /\ Val(o) # ""
        candidate == IF Truthy(item.extra.voicevoxSpeaker) THEN item.extra.voicevoxSpeaker
                     ELSE IF Truthy(item.extra.ttsSpeakerId) THEN item.extra.ttsSpeakerId
                     ELSE item.extra.voiceSpeaker
    IN  IF IsSet(candidate) /\ IsSet(IntOf(Val(candidate)))
        THEN Val(IntOf(Val(candidate)))
        ELSE IF IsSet(item.speaker) /\ Val(item.speaker) \in DOMAIN VOICEVOX_SPEAKERS
        THEN VOICEVOX_SPEAKERS[Val(item.speaker)]
        ELSE DEFAULT_VOICEVOX_SPEAKER

\* speaker_keys: the voiceSpeaker attribute, then default_key
SpeakerKeys(extra, default_key) ==
    (IF IsSet(extra.voiceSpeaker) /\ Val(extra.voiceSpeaker) # ""
     THEN <<Val(extra.voiceSpeaker)>> ELSE <<>>)
    \o (IF IsSet(default_key) /\ Val(default_key) # "" THEN <<Val(default_key)>> ELSE <<>>)

RECURSIVE UpdateFromKeys(_, _, _)
\* the loop over speaker_keys: the preset of every key is merged in, in order
UpdateFromKeys(settings, keys, voice_presets) ==
    IF keys = <<>> THEN settings
    ELSE UpdateFromKeys(IF Head(keys) \in DOMAIN voice_presets
                        THEN Update(settings, voice_presets[Head(keys)]) ELSE settings,
                        Tail(keys), voice_presets)

\* _voice_settings_for_object: the speaker id and the settings of a TTS
\* call; the presets of the speaker keys, then the named preset voicePreset,
\* then the inline object voiceTts are merged into the settings
VoiceSettingsForObject(extra, voice_presets, default_key, fallback_speaker) ==
    LET fromKeys == UpdateFromKeys(EmptyDict, SpeakerKeys(extra, default_key),
                                   voice_presets)
        fromPreset == IF /\ IsSet(extra.voicePreset)
                         /\ Val(extra.voicePreset) \in DOMAIN voice_presets
                      THEN Update(fromKeys, voice_presets[Val(extra.voicePreset)])
                      ELSE fromKeys
        merged == IF IsSet(extra.voiceTts) THEN Update(fromPreset, Val(extra.voiceTts))
                  ELSE fromPreset
    IN  [speaker_id |-> IF "speakerId" \in DOMAIN merged
                        THEN merged["speakerId"] ELSE fallback_speaker,
         settings |-> [key \in DOMAIN merged \ {"speakerId"} |-> merged[key]]]

\* the speaker id and the settings of the TTS call of an artifact of the
\* document: of the hook scene, or of the item at pos
VoiceCall(req, parameter, at_hook, pos) ==
    LET voice_presets == ExtractVoicePresets(parameter, req.voicePresets)
    IN  IF at_hook
        THEN VoiceSettingsForObject(parameter.scenes[1].extra, voice_presets,
                                    Some("hook"), HOOK_VOICEVOX_SPEAKER)
        ELSE LET item == parameter.scriptGroups[pos[1]].items[pos[2]]
             IN  VoiceSettingsForObject(item.extra, voice_presets, item.speaker,
                                        ResolveSpeakerId(item))

(***************************************************************************)
(* Synthesis stage helpers.                                                *)
(***************************************************************************)
RECURSIVE ItemOrderLastGroupFirst(_, _)
\* variant of the order that takes the script groups from the last to the
\* first
ItemOrderLastGroupFirst(script_groups, g) ==
    IF g > Len(script_groups) THEN <<>>
    ELSE ItemOrderLastGroupFirst(script_groups, g + 1)
         \o [i \in 1..Len(script_groups[g].items) |-> <<g, i>>]

RECURSIVE ItemOrder(_, _)
\* the (group, item) positions in the order of the two nested loops of
\* _process_script_groups, from group g on (1-based)
ItemOrder(script_groups, g) ==
    IF g > Len(script_groups) THEN <<>>
    ELSE [i \in 1..Len(script_groups[g].items) |-> <<g, i>>]
         \o ItemOrder(script_groups, g + 1)

\* _hook_scene: whether the first scene carries a truthy text
HookRequired(parameter) ==
    /\ parameter.scenes # <<>>
    /\ IsSet(parameter.scenes[1].text)
    /\ Val(parameter.scenes[1].text) # <<>>

\* _prepare_scene_audio
PrepareSceneAudio(scene) ==
    IF scene.audio.kind = "str"
    THEN [kind |-> "dict", src |-> scene.audio.src, volume |-> Some(1),
          startFrom |-> Some(0), durationSec |-> None]
    ELSE IF scene.audio.kind = "dict" THEN scene.audio
    ELSE [kind |-> "dict", src |-> Some(HOOK_AUDIO_PATH), volume |-> Some(1),
          startFrom |-> Some(0), durationSec |-> None]

\* variant of total_items that counts the groups instead of their items
TotalItemsCountsGroups(parameter) ==
    Len(parameter.scriptGroups) + (IF HookRequired(parameter) THEN 1 ELSE 0)

\* total_items
TotalItems(parameter) ==
    Len(ItemOrder(parameter.scriptGroups, 1)) + (IF HookRequired(parameter) THEN 1 ELSE 0)

\* the effects on the directories of resolving one artifact to r:
\* _project_dir creates the project directory, _safe_join the parent of the
\* resolved path; [error, path, dirs]
WithMkdirs(project, r, fileSet, dirSet) ==
    IF ~MkdirOk(project, fileSet)
    THEN [error |-> Some("File exists"), path |-> <<>>, dirs |-> dirSet]
    ELSE IF IsSet(r.error)
    THEN [error |-> r.error, path |-> r.path, dirs |-> dirSet \cup Prefixes(project)]
    ELSE IF ~MkdirOk(Parent(r.path), fileSet)
    THEN [error |-> Some("File exists"), path |-> r.path,
          dirs |-> dirSet \cup Prefixes(project)]
    ELSE [error |-> None, path |-> r.path,
          dirs |-> dirSet \cup Prefixes(project) \cup Prefixes(Parent(r.path))]

\* _resolve_voice_file on the filesystem: [error, path, dirs]
VoiceTarget(video_id, voice_path, fileSet, dirSet) ==
    Only({WithMkdirs(ProjectDir(video_id), r, fileSet, dirSet) :
            r \in {ResolveVoiceFile(video_id, voice_path)}})

(***************************************************************************)
(* State.                                                                  *)
(***************************************************************************)
VARIABLES
    jobs,              \* JOBS: the job records, by job id (1, 2, ...)
    task,              \* the background task _run_job of every job: its
                       \* position and its local variables
    files,             \* the regular files of the filesystem
    dirs,              \* the directories of the filesystem
    renderCommandSet,  \* whether REMOTION_RENDER_COMMAND is non-empty
    response,          \* the HTTP response the step just taken has sent, if
                       \* it was a request handler (None after a step of a
                       \* background task)
    hist               \* history of every job: the distinct values of
                       \* progress.stage in order, the filesystem accesses of
                       \* the synthesis stage, the parameter files written

vars == <<jobs, task, files, dirs, renderCommandSet, response, hist>>

JobIds == 1..MaxJobs

Statuses == {"queued", "running", "done", "failed"}

\* the local variables of _run_job and _process_script_groups
InitialTask ==
    [pc |-> "queued", parameter |-> None, order |-> <<>>, hook_required |-> FALSE,
     k |-> 0, done |-> 0, at_hook |-> FALSE, voice_path |-> <<>>, target |-> <<>>,
     audio_conf |-> NoAudio, result |-> None]

InitialHist ==
    [stages |-> <<>>, fsops |-> {}, render_calls |-> 0, persisted |-> None,
     events |-> <<>>, render_exit |-> None, probe_failures |-> {},
     tts_calls |-> {}]

\* the history of job j after a step that turns the registry into registry2
Track(j, registry2, h) ==
    LET stage == registry2[j].progress.stage
        old == h[j].stages
    IN  IF old # <<>> /\ old[Len(old)] = stage THEN h
        ELSE [h EXCEPT ![j].stages = Append(old, stage)]

FsOp(op, path) == [op |-> op, path |-> path]

\* the position of the artifact a task works on: <<group, item>> of a script
\* item, <<0, 0>> for the hook scene
Pos(t, at_hook) == IF at_hook THEN <<0, 0>> ELSE t.order[t.k]

\* an event of the tts stage: the TTS call issued ("tts"), the audio written
\* ("write"), the existence test ("exists"), the probe ("probe"), or ttsDone
\* = n published ("done") for the artifact at pos
Event(op, pos, n) == [op |-> op, pos |-> pos, n |-> n]

\* the history h with one more event of job j
Log(h, j, event) == [h EXCEPT ![j].events = Append(@, event)]

\* variant of the except clause that records the error but not the status
FailedUpdateWithoutStatus(registry, j, message) ==
    UpdateJob(registry, j, None, [stage |-> "failed"], None,
              Some([code |-> "internal_error", message |-> message]))

\* the except clause of _run_job: the job record of a failing job
\* (error code internal_error, message str(exc))
FailedUpdate(registry, j, message) ==
    UpdateJob(registry, j, Some("failed"), [stage |-> "failed"], None,
              Some([code |-> "internal_error", message |-> message]))

\* variant of the last statement that publishes the result but not the status
DoneUpdateWithoutStatus(registry, j, result) ==
    UpdateJob(registry, j, None, [stage |-> "finishing"], Some(result), None)

\* the last statement of the try block of _run_job
DoneUpdate(registry, j, result) ==
    UpdateJob(registry, j, Some("done"), [stage |-> "finishing"], Some(result), None)

Exists(path) == path \in files \cup dirs

(***************************************************************************)
(* Audio artifacts that may be on disk when the service starts.            *)
(***************************************************************************)
PrestagedHook == ProjectDir("abc") \o HOOK_AUDIO_PATH

InitialFileSystems == {{}, {PrestagedHook}}

\* the service has just started on one of the initial filesystems
InitOn(fileSystems) ==
    /\ jobs = <<>>
    /\ task = <<>>
    /\ files \in fileSystems
    /\ dirs = {PROJECTS_ROOT, VIDEO_OUT_DIR}
              \cup UNION {Prefixes(Parent(f)) : f \in files}
    /\ renderCommandSet \in BOOLEAN
    /\ response = None
    /\ hist = <<>>

Init == InitOn(InitialFileSystems)

(***************************************************************************)
(* HTTP handlers.                                                          *)
(***************************************************************************)
\* the request of an exchange: the body of a POST, the job id of a GET of one
\* job (0 if none), the status filter of a listing
Posted(req) == [body |-> Some(req), job_id |-> 0, status |-> None]
ById(job_id) == [body |-> None, job_id |-> job_id, status |-> None]
Listed(status) == [body |-> None, job_id |-> 0, status |-> status]

\* an HTTP exchange: the handler, the request it answers, the status code
\* and the body of the response
Response(op, request, status_code, body) ==
    [op |-> op, request |-> request, status_code |-> status_code, body |-> body]

\* the body of create_job; checked is whether the existence test is made
Submit(req, cap, checked) ==
    LET video_id == req.videoId
        param_path == ParameterPath(video_id)
        video_path == ConflictVideoPath(video_id)
        joinFails == checked /\ (IsSet(param_path.error)
                                 \/ ~MkdirOk(Parent(param_path.path), files))
        job_id == Len(jobs) + 1
        record == JobRecord(job_id, req)
    IN  /\ Len(jobs) < cap
        /\ dirs' = IF checked /\ ~joinFails
                   THEN dirs \cup Prefixes(Parent(param_path.path)) ELSE dirs
        /\ UNCHANGED <<files, renderCommandSet>>
        /\ IF joinFails
           THEN /\ response' = Some(Response("create_job", Posted(req), 500, <<>>))
                /\ UNCHANGED <<jobs, task, hist>>
           ELSE IF checked /\ (Exists(param_path.path) \/ Exists(video_path))
           THEN /\ response' = Some(Response("create_job", Posted(req), 409, <<>>))
                /\ UNCHANGED <<jobs, task, hist>>
           ELSE /\ jobs' = Append(jobs, record)
                /\ task' = Append(task, InitialTask)
                /\ hist' = Append(hist, InitialHist)
                /\ response' = Some(Response("create_job", Posted(req), 202, <<JobSummary(record)>>))

\* variant of create_job that never makes the existence test
CreateJobUnchecked(req, cap) == Submit(req, cap, FALSE)

\* variant of create_job that makes the existence test whatever overwrite is
CreateJobAlwaysChecked(req, cap) == Submit(req, cap, TRUE)

\* POST /video-jobs.  cap bounds the number of accepted submissions.
CreateJob(req, cap) == Submit(req, cap, ~req.options.overwrite)

\* GET /video-jobs/{job_id}
GetJob(job_id) ==
    /\ response' = IF job_id \in DOMAIN jobs
                   THEN Some(Response("get_job", ById(job_id), 200, <<JobSummary(jobs[job_id])>>))
                   ELSE Some(Response("get_job", ById(job_id), 404, <<>>))
    /\ UNCHANGED <<jobs, task, files, dirs, renderCommandSet, hist>>

RECURSIVE Summaries(_, _)
\* [_job_summary(job) for job in values if status is unset or job.status == status]
Summaries(values, status) ==
    IF values = <<>> THEN <<>>
    ELSE (IF IsSet(status) => Head(values).status = Val(status)
          THEN <<JobSummary(Head(values))>> ELSE <<>>) \o Summaries(Tail(values), status)

\* GET /video-jobs with an optional status filter
ListJobs(status) ==
    /\ response' = Some(Response("list_jobs", Listed(status), 200, Summaries(jobs, status)))
    /\ UNCHANGED <<jobs, task, files, dirs, renderCommandSet, hist>>

(***************************************************************************)
(* The background task of a job: _run_job and _process_script_groups.      *)
(***************************************************************************)
\* durations the probe of an existing audio file may report (ms)
ProbeDurations == {0, 2000}

At(j, pc) == j \in DOMAIN task /\ task[j].pc = pc

Draft(j) == Val(task[j].parameter)

\* where _process_script_groups goes on after the item at position k - 1
AfterItem(t, k) ==
    IF k <= Len(t.order) THEN "item" ELSE IF t.hook_required THEN "hook" ELSE "param"

\* variant in which the exception is not caught: the registry is not updated
FailEscapes(j, message) == UNCHANGED <<jobs, hist>>

\* an exception reaches the except clause of _run_job
Fail(j, message) ==
    LET registry == FailedUpdate(jobs, j, message)
    IN  /\ jobs' = registry
        /\ hist' = Track(j, registry, hist)

\* variant of the start of _run_job without the deep copy: the setdefault of
\* meta.videoId lands in the request's own document
StartJobInPlace(j) ==
    /\ At(j, "queued")
    /\ response' = None
    /\ LET video_id == jobs[j].request.videoId
           parameter == [jobs[j].request.parameter EXCEPT
                           !.meta.videoId = IF IsSet(@) THEN @ ELSE Some(video_id)]
           registry == UpdateJob([jobs EXCEPT ![j].request.parameter = parameter],
                                 j, Some("running"), [stage |-> "tts"], None, None)
       IN  /\ jobs' = registry
           /\ task' = [task EXCEPT ![j].pc = "tts_init", ![j].parameter = Some(parameter)]
           /\ hist' = Track(j, registry, hist)
    /\ UNCHANGED <<files, dirs, renderCommandSet>>

\* variant of the start of _run_job that sets the status but not the stage
StartJobStageLater(j) ==
    /\ At(j, "queued")
    /\ response' = None
    /\ LET registry == UpdateJob(jobs, j, Some("running"), NoPatch, None, None)
           video_id == jobs[j].request.videoId
           copy == jobs[j].request.parameter
           parameter == [copy EXCEPT !.meta.videoId = IF IsSet(@) THEN @ ELSE Some(video_id)]
       IN  /\ jobs' = registry
           /\ task' = [task EXCEPT ![j].pc = "tts_init", ![j].parameter = Some(parameter)]
           /\ UNCHANGED hist
    /\ UNCHANGED <<files, dirs, renderCommandSet>>

\* _run_job up to the call of _process_script_groups
StartJob(j) ==
    /\ At(j, "queued")
    /\ response' = None
    /\ LET registry == UpdateJob(jobs, j, Some("running"), [stage |-> "tts"], None, None)
           video_id == jobs[j].request.videoId
           copy == jobs[j].request.parameter
           parameter == [copy EXCEPT !.meta.videoId = IF IsSet(@) THEN @ ELSE Some(video_id)]
       IN  /\ jobs' = registry
           /\ task' = [task EXCEPT ![j].pc = "tts_init", ![j].parameter = Some(parameter)]
           /\ hist' = Track(j, registry, hist)
    /\ UNCHANGED <<files, dirs, renderCommandSet>>

\* _process_script_groups up to the loops
TtsInit(j) ==
    /\ At(j, "tts_init")
    /\ response' = None
    /\ LET parameter == Draft(j)
           order == ItemOrder(parameter.scriptGroups, 1)
           hook_required == HookRequired(parameter)
           total_items == TotalItems(parameter)
           registry == UpdateJob(jobs, j, None,
                           [stage |-> "tts", ttsTotal |-> total_items, ttsDone |-> 0],
                           None, None)
       IN  /\ jobs' = registry
           /\ task' = [task EXCEPT ![j].order = order,
                                   ![j].hook_required = hook_required,
                                   ![j].k = 1,
                                   ![j].done = 0,
                                   ![j].pc = IF total_items = 0 THEN "param"
                                             ELSE IF order # <<>> THEN "item" ELSE "hook"]
           /\ hist' = Track(j, registry, hist)
    /\ UNCHANGED <<files, dirs, renderCommandSet>>

\* variant of the step after the resolution that goes on to the probe without
\* the existence test
AfterResolveUntested(j, parameter, at_hook, audio_conf, voice_path, r) ==
    /\ dirs' = r.dirs
    /\ UNCHANGED files
    /\ IF IsSet(r.error)
       THEN /\ Fail(j, Val(r.error))
            /\ task' = [task EXCEPT ![j].parameter = Some(parameter),
                                    ![j].pc = "finished"]
       ELSE /\ task' = [task EXCEPT ![j].parameter = Some(parameter),
                                    ![j].at_hook = at_hook,
                                    ![j].audio_conf = audio_conf,
                                    ![j].voice_path = voice_path,
                                    ![j].target = r.path,
                                    ![j].pc = IF jobs[j].request.options.generateAudio
                                              THEN "tts_wait" ELSE "probe_wait"]
            /\ hist' = Log(hist, j,
                           Event(IF jobs[j].request.options.generateAudio
                                 THEN "tts" ELSE "exists", Pos(task[j], at_hook), 0))
            /\ UNCHANGED jobs

\* what follows the path resolution r of an artifact (an item's or the hook
\* scene's) in _process_script_groups: the failure of the resolution, the TTS
\* call when audio is generated, else the existence test before the probe;
\* parameter is the document with the path recorded in it
AfterResolve(j, parameter, at_hook, audio_conf, voice_path, r) ==
    /\ dirs' = r.dirs
    /\ UNCHANGED files
    /\ IF IsSet(r.error)
       THEN /\ Fail(j, Val(r.error))
            /\ task' = [task EXCEPT ![j].parameter = Some(parameter),
                                    ![j].pc = "finished"]
       ELSE IF jobs[j].request.options.generateAudio
       THEN /\ task' = [task EXCEPT ![j].parameter = Some(parameter),
                                    ![j].at_hook = at_hook,
                                    ![j].audio_conf = audio_conf,
                                    ![j].voice_path = voice_path,
                                    ![j].target = r.path,
                                    ![j].pc = "tts_wait"]
            /\ \E call \in {VoiceCall(jobs[j].request, parameter, at_hook,
                                      Pos(task[j], at_hook))} :
                  hist' = [Log(hist, j, Event("tts", Pos(task[j], at_hook), 0)) EXCEPT
                             ![j].tts_calls = @ \cup {[pos |-> Pos(task[j], at_hook),
                                                       speaker_id |-> call.speaker_id,
                                                       settings |-> call.settings]}]
            /\ UNCHANGED jobs
       ELSE IF r.path \notin files \cup r.dirs
       THEN /\ jobs' = FailedUpdate(jobs, j, "voice file missing")
            /\ hist' = [Log(Track(j, jobs', hist), j,
                             Event("exists", Pos(task[j], at_hook), 0)) EXCEPT
                          ![j].fsops = @ \cup {FsOp("exists", r.path)}]
            /\ task' = [task EXCEPT ![j].parameter = Some(parameter),
                                    ![j].pc = "finished"]
       ELSE /\ task' = [task EXCEPT ![j].parameter = Some(parameter),
                                    ![j].at_hook = at_hook,
                                    ![j].audio_conf = audio_conf,
                                    ![j].voice_path = voice_path,
                                    ![j].target = r.path,
                                    ![j].pc = "probe_wait"]
            /\ hist' = [Log(hist, j, Event("exists", Pos(task[j], at_hook), 0)) EXCEPT
                          ![j].fsops = @ \cup {FsOp("exists", r.path)}]
            /\ UNCHANGED jobs

\* item.voice or _default_voice_name(...)
ItemVoicePath(video_id, item, g, i) ==
    IF IsSet(item.voice) /\ Val(item.voice) # <<>>
    THEN Val(item.voice)
    ELSE DefaultVoiceName(video_id, g - 1, i - 1)

\* variant of the skip of an item without text that does not count it as
\* done
ItemSkipUncounted(j, g, i) ==
    /\ task' = [task EXCEPT
                  ![j].parameter = Some([Draft(j) EXCEPT
                        !.scriptGroups[g].items[i].voiceSec = Some(0)]),
                  ![j].k = task[j].k + 1,
                  ![j].pc = AfterItem(task[j], task[j].k + 1)]
    /\ UNCHANGED <<jobs, hist, files, dirs>>

\* an item without text: voiceSec 0, one more item done
ItemSkip(j, g, i) ==
    /\ jobs' = UpdateJob(jobs, j, None, [ttsDone |-> task[j].done + 1], None, None)
    /\ task' = [task EXCEPT
                  ![j].parameter = Some([Draft(j) EXCEPT
                        !.scriptGroups[g].items[i].voiceSec = Some(0)]),
                  ![j].done = task[j].done + 1,
                  ![j].k = task[j].k + 1,
                  ![j].pc = AfterItem(task[j], task[j].k + 1)]
    /\ hist' = Log(Track(j, jobs', hist), j, Event("done", <<g, i>>, task[j].done + 1))
    /\ UNCHANGED <<files, dirs>>

\* variant in which an item that arrives with a voice path is not
\* synthesized again
ItemResolveReusing(j, g, i, voice_path) ==
    IF IsSet(Draft(j).scriptGroups[g].items[i].voice)
    THEN ItemSkip(j, g, i)
    ELSE \E r \in {VoiceTarget(jobs[j].request.videoId, voice_path, files, dirs)} :
            AfterResolve(j, [Draft(j) EXCEPT !.scriptGroups[g].items[i].voice = Some(voice_path)],
                         FALSE, task[j].audio_conf, voice_path, r)

\* an item with text: its voice path is recorded and resolved
ItemResolve(j, g, i, voice_path) ==
    \E r \in {VoiceTarget(jobs[j].request.videoId, voice_path, files, dirs)} :
        AfterResolve(j, [Draft(j) EXCEPT !.scriptGroups[g].items[i].voice = Some(voice_path)],
                     FALSE, task[j].audio_conf, voice_path, r)

\* variant of the loop body that skips an item only when its text is empty
ItemAtUnstripped(j, g, i) ==
    IF TextOrEmpty(Draft(j).scriptGroups[g].items[i].text) = <<>>
    THEN ItemSkip(j, g, i)
    ELSE \E voice_path \in {ItemVoicePath(jobs[j].request.videoId,
                                           Draft(j).scriptGroups[g].items[i], g, i)} :
            ItemResolve(j, g, i, voice_path)

\* the item at position (g, i) of the loops
ItemAt(j, g, i) ==
    IF Strip(TextOrEmpty(Draft(j).scriptGroups[g].items[i].text)) = <<>>
    THEN ItemSkip(j, g, i)
    ELSE \E voice_path \in {ItemVoicePath(jobs[j].request.videoId,
                                           Draft(j).scriptGroups[g].items[i], g, i)} :
            ItemResolve(j, g, i, voice_path)

\* one iteration of the item loop up to the TTS call (generateAudio) or the
\* probe (otherwise); an item without text is finished here
ItemBegin(j) ==
    /\ At(j, "item")
    /\ response' = None
    /\ ItemAt(j, task[j].order[task[j].k][1], task[j].order[task[j].k][2])
    /\ UNCHANGED renderCommandSet

\* audio_conf.get("src") or HOOK_AUDIO_PATH, and the default again when the
\* value is blank
HookVoicePath(prepared) ==
    IF IsSet(prepared.src) /\ StripPath(Val(prepared.src)) # <<>>
    THEN Val(prepared.src) ELSE HOOK_AUDIO_PATH

\* the hook scene with its descriptor audio_conf (src set): a descriptor
\* object of the document is changed in place
HookResolve(j, audio_conf) ==
    \E r \in {VoiceTarget(jobs[j].request.videoId, Val(audio_conf.src), files, dirs)} :
        AfterResolve(j,
                     IF Draft(j).scenes[1].audio.kind = "dict"
                     THEN [Draft(j) EXCEPT !.scenes[1].audio = audio_conf] ELSE Draft(j),
                     TRUE, audio_conf, Val(audio_conf.src), r)

\* the src of the descriptor is set to the voice path
WithSrc(prepared, voice_path) == [prepared EXCEPT !.src = Some(voice_path)]

HookPrepared(prepared) == WithSrc(prepared, HookVoicePath(prepared))

\* the hook scene up to the TTS call or the probe
HookBegin(j) ==
    /\ At(j, "hook")
    /\ response' = None
    /\ \E audio_conf \in {HookPrepared(PrepareSceneAudio(Draft(j).scenes[1]))} :
          HookResolve(j, audio_conf)
    /\ UNCHANGED renderCommandSet

\* variant in which the task moves on to the next artifact as soon as the
\* audio is written, without probing it or recording its duration
TtsReturnMovesOn(j, ok) ==
    /\ At(j, "tts_wait")
    /\ response' = None
    /\ LET t == task[j]
           target == t.target
       IN  IF ~ok \/ ~MkdirOk(Parent(target), files) \/ target \in dirs
           THEN /\ Fail(j, "tts request failed")
                /\ task' = [task EXCEPT ![j].pc = "finished"]
                /\ UNCHANGED <<files, dirs>>
           ELSE /\ files' = files \cup {target}
                /\ dirs' = dirs \cup Prefixes(Parent(target))
                /\ task' = [task EXCEPT
                              ![j].k = IF t.at_hook THEN @ ELSE t.k + 1,
                              ![j].pc = IF t.at_hook THEN "param" ELSE AfterItem(t, t.k + 1)]
                /\ hist' = [Log(hist, j, Event("write", Pos(t, t.at_hook), 0)) EXCEPT
                              ![j].fsops = @ \cup {FsOp("write", target)}]
                /\ UNCHANGED jobs
    /\ UNCHANGED renderCommandSet

\* _synthesize_voice returns (ok) or raises (an HTTP error of either
\* request); the audio bytes are written at the target
TtsReturn(j, ok) ==
    /\ At(j, "tts_wait")
    /\ response' = None
    /\ LET t == task[j]
           target == t.target
       IN  IF ~ok
           THEN /\ Fail(j, "tts request failed")
                /\ task' = [task EXCEPT ![j].pc = "finished"]
                /\ UNCHANGED <<files, dirs>>
           ELSE IF ~MkdirOk(Parent(target), files)
           THEN /\ Fail(j, "File exists")
                /\ task' = [task EXCEPT ![j].pc = "finished"]
                /\ UNCHANGED <<files, dirs>>
           ELSE IF target \in dirs
           THEN /\ LET registry == FailedUpdate(jobs, j, "Is a directory")
                   IN  /\ jobs' = registry
                       /\ hist' = [Track(j, registry, hist) EXCEPT
                                     ![j].fsops = @ \cup {FsOp("write_failed", target)}]
                /\ task' = [task EXCEPT ![j].pc = "finished"]
                /\ dirs' = dirs \cup Prefixes(Parent(target))
                /\ UNCHANGED files
           ELSE /\ files' = files \cup {target}
                /\ dirs' = dirs \cup Prefixes(Parent(target))
                /\ task' = [task EXCEPT ![j].pc = "probe_wait"]
                /\ hist' = [Log(hist, j, Event("write", Pos(t, t.at_hook), 0)) EXCEPT
                              ![j].fsops = @ \cup {FsOp("write", target)}]
                /\ UNCHANGED jobs
    /\ UNCHANGED renderCommandSet

\* try: duration = await _probe_audio_duration(target)
\* except FileNotFoundError: duration = _estimate_voice_sec(text)
DurationOf(outcome, probed, text) ==
    IF outcome = "ok" THEN probed ELSE EstimateVoiceSec(text)

\* variant of the assignment that keeps a voiceSec the item already has
SetVoiceSecIfAbsent(parameter, g, i, duration) ==
    IF IsSet(parameter.scriptGroups[g].items[i].voiceSec) THEN parameter
    ELSE [parameter EXCEPT !.scriptGroups[g].items[i].voiceSec = Some(duration)]

\* item.voiceSec = duration
SetVoiceSec(parameter, g, i, duration) ==
    [parameter EXCEPT !.scriptGroups[g].items[i].voiceSec = Some(duration)]

\* the history h with the failure of the probe of the artifact at pos
ProbeFailed(h, j, outcome, pos) ==
    IF outcome = "ok" THEN h
    ELSE [h EXCEPT ![j].probe_failures = @ \cup {[pos |-> pos, cause |-> outcome]}]

\* variant of the failure of the probe that rolls back: the audio files the
\* job has written are removed
ProbeReturnRollingBack(j, outcome, probed) ==
    /\ At(j, "probe_wait")
    /\ outcome = "error" /\ probed = 0
    /\ response' = None
    /\ Fail(j, "ffprobe failed")
    /\ task' = [task EXCEPT ![j].pc = "finished"]
    /\ files' = files \ {op.path : op \in {o \in hist[j].fsops : o.op = "write"}}
    /\ UNCHANGED <<dirs, renderCommandSet>>

\* _probe_audio_duration returns: a duration ("ok"), FileNotFoundError
\* because the file is not there ("notfound") or because the probe
\* executable is not there ("noexec"), or RuntimeError for a non-zero exit or
\* an unparsable output ("error"); the duration is recorded and published
ProbeReturn(j, outcome, probed) ==
    /\ At(j, "probe_wait")
    /\ response' = None
    /\ outcome = "ok" => task[j].target \in files
    /\ outcome # "ok" => probed = 0
    /\ LET t == task[j]
           parameter == Draft(j)
           g == t.order[t.k][1]
           i == t.order[t.k][2]
           text == IF t.at_hook THEN parameter.scenes[1].text
                   ELSE Some(Strip(TextOrEmpty(parameter.scriptGroups[g].items[i].text)))
           duration == DurationOf(outcome, probed, text)
           audio_conf == [t.audio_conf EXCEPT !.durationSec = Some(duration)]
           parameter2 == IF t.at_hook
                         THEN [parameter EXCEPT !.scenes[1].audio = audio_conf]
                         ELSE SetVoiceSec(parameter, g, i, duration)
           registry == UpdateJob(jobs, j, None, [ttsDone |-> t.done + 1], None, None)
           probedHist == [ProbeFailed(Log(hist, j, Event("probe", Pos(t, t.at_hook), 0)),
                                      j, outcome, Pos(t, t.at_hook)) EXCEPT
                            ![j].fsops = @ \cup {FsOp("probe", t.target)}]
       IN  IF outcome = "error"
           THEN /\ LET failed == FailedUpdate(jobs, j, "ffprobe failed")
                   IN  /\ jobs' = failed
                       /\ hist' = Track(j, failed, probedHist)
                /\ task' = [task EXCEPT ![j].pc = "finished"]
           ELSE /\ jobs' = registry
                /\ hist' = Log(Track(j, registry, probedHist), j,
                               Event("done", Pos(t, t.at_hook), t.done + 1))
                /\ task' = [task EXCEPT
                              ![j].parameter = Some(parameter2),
                              ![j].audio_conf = IF t.at_hook THEN audio_conf ELSE @,
                              ![j].done = t.done + 1,
                              ![j].k = IF t.at_hook THEN @ ELSE t.k + 1,
                              ![j].pc = IF t.at_hook THEN "param"
                                        ELSE AfterItem(t, t.k + 1)]
    /\ UNCHANGED <<files, dirs, renderCommandSet>>


\* variant of the step between the stages that does not publish the stage
ParamBuildingSilent(j) ==
    /\ At(j, "param")
    /\ response' = None
    /\ task' = [task EXCEPT ![j].pc = "write"]
    /\ UNCHANGED <<jobs, hist, files, dirs, renderCommandSet>>

\* _run_job between the two stages
ParamBuilding(j) ==
    /\ At(j, "param")
    /\ response' = None
    /\ LET registry == UpdateJob(jobs, j, None, [stage |-> "param-building"], None, None)
       IN  /\ jobs' = registry
           /\ hist' = Track(j, registry, hist)
    /\ task' = [task EXCEPT ![j].pc = "write"]
    /\ UNCHANGED <<files, dirs, renderCommandSet>>

\* variant of the result that carries the location only
BuildResultBare(param_path, hook_duration, total_sec) ==
    [parameterPath |-> param_path, hookSec |-> None, totalSec |-> None,
     videoPath |-> None]

\* the result of _run_job before the render
BuildResult(param_path, hook_duration, total_sec) ==
    [parameterPath |-> param_path,
     hookSec |-> IF IsSet(hook_duration) /\ Val(hook_duration) # 0 THEN hook_duration ELSE None,
     totalSec |-> total_sec,
     videoPath |-> None]

\* variant of the render test that ignores dryRun
RenderWantedIgnoringDryRun(options, commandSet) == options.render /\ commandSet

\* whether _run_job invokes the render
RenderWanted(options, commandSet) ==
    options.render /\ ~options.dryRun /\ commandSet

\* _run_job from _compute_scene0_duration to the render call, or to the end
\* when no render is invoked; io is the outcome of write_text
WriteParameter(j, io) ==
    /\ At(j, "write")
    /\ response' = None
    /\ \E c \in {ComputeScene0Duration(Draft(j))},
          param_path \in {ParameterPath(jobs[j].request.videoId)} :
       \E result \in {BuildResult(param_path.path, c.hook, TotalSec(c.parameter))} :
       LET options == jobs[j].request.options
           parameter == c.parameter
       IN  IF IsSet(param_path.error) \/ ~MkdirOk(Parent(param_path.path), files)
           THEN /\ Fail(j, IF IsSet(param_path.error) THEN Val(param_path.error)
                           ELSE "File exists")
                /\ task' = [task EXCEPT ![j].parameter = Some(parameter),
                                        ![j].pc = "finished"]
                /\ UNCHANGED <<files, dirs>>
           ELSE IF param_path.path \in dirs \/ io # "ok"
           THEN /\ Fail(j, "write failed")
                /\ task' = [task EXCEPT ![j].parameter = Some(parameter),
                                        ![j].pc = "finished"]
                /\ dirs' = dirs \cup Prefixes(Parent(param_path.path))
                /\ UNCHANGED files
           ELSE /\ files' = files \cup {param_path.path}
                /\ dirs' = dirs \cup Prefixes(Parent(param_path.path))
                /\ IF IsSet(TotalSecError(parameter))
                   THEN LET registry == FailedUpdate(jobs, j, Val(TotalSecError(parameter)))
                        IN  /\ jobs' = registry
                            /\ hist' = [Track(j, registry, hist) EXCEPT
                                          ![j].persisted = Some(parameter),
                                          ![j].fsops = @ \cup {FsOp("write_param", param_path.path)}]
                            /\ task' = [task EXCEPT ![j].parameter = Some(parameter),
                                                    ![j].pc = "finished"]
                   ELSE IF RenderWanted(options, renderCommandSet)
                   THEN LET registry == UpdateJob(jobs, j, None, [stage |-> "rendering"],
                                                  None, None)
                        IN  /\ jobs' = registry
                            /\ hist' = [Track(j, registry, hist) EXCEPT
                                          ![j].persisted = Some(parameter),
                                          ![j].fsops = @ \cup {FsOp("write_param", param_path.path)},
                                          ![j].render_calls = @ + 1]
                            /\ task' = [task EXCEPT ![j].parameter = Some(parameter),
                                                    ![j].result = Some(result),
                                                    ![j].pc = "render_wait"]
                   ELSE LET registry == DoneUpdate(jobs, j, result)
                        IN  /\ jobs' = registry
                            /\ hist' = [Track(j, registry, hist) EXCEPT
                                          ![j].persisted = Some(parameter),
                                          ![j].fsops = @ \cup {FsOp("write_param", param_path.path)}]
                            /\ task' = [task EXCEPT ![j].parameter = Some(parameter),
                                                    ![j].result = Some(result),
                                                    ![j].pc = "finished"]
    /\ UNCHANGED renderCommandSet

\* the history h with the exit of the render command of job j: "zero" or
\* "nonzero"
Exited(h, j, outcome) ==
    [h EXCEPT ![j].render_exit = Some(IF outcome = "nonzero" THEN "nonzero" ELSE "zero")]

\* variant of the return of the render that does not look for the output
RenderReturnTrusting(j, outcome) ==
    /\ At(j, "render_wait")
    /\ response' = None
    /\ \E produced \in {RenderOutputPath(jobs[j].request.videoId)} :
       LET files2 == IF outcome = "produced" THEN files \cup {produced} ELSE files
           result == [Val(task[j].result) EXCEPT !.videoPath = Some(produced)]
           registry == IF outcome = "nonzero"
                       THEN FailedUpdate(jobs, j, "Remotion render failed")
                       ELSE DoneUpdate(jobs, j, result)
       IN  /\ files' = files2
           /\ jobs' = registry
           /\ hist' = Exited(Track(j, registry, hist), j, outcome)
           /\ task' = [task EXCEPT ![j].result = IF outcome = "nonzero" THEN @ ELSE Some(result),
                                   ![j].pc = "finished"]
    /\ UNCHANGED <<dirs, renderCommandSet>>

\* _render_video returns: the command exits 0 having produced its output
\* ("produced"), exits 0 without writing it ("exit0"), or exits non-zero
RenderReturn(j, outcome) ==
    /\ At(j, "render_wait")
    /\ response' = None
    /\ \E produced \in {RenderOutputPath(jobs[j].request.videoId)} :
       LET files2 == IF outcome = "produced" THEN files \cup {produced} ELSE files
           result == [Val(task[j].result) EXCEPT !.videoPath = Some(produced)]
           registry == IF outcome = "nonzero"
                       THEN FailedUpdate(jobs, j, "Remotion render failed")
                       ELSE IF produced \notin files2 \cup dirs
                       THEN FailedUpdate(jobs, j, "Remotion output not found")
                       ELSE DoneUpdate(jobs, j, result)
       IN  /\ files' = files2
           /\ jobs' = registry
           /\ hist' = Exited(Track(j, registry, hist), j, outcome)
           /\ task' = [task EXCEPT
                         ![j].result = IF outcome # "nonzero" /\ produced \in files2 \cup dirs
                                       THEN Some(result) ELSE @,
                         ![j].pc = "finished"]
    /\ UNCHANGED <<dirs, renderCommandSet>>

\* one step of the background task of job j
JobStep(j) ==
    \/ StartJob(j)
    \/ TtsInit(j)
    \/ ItemBegin(j)
    \/ HookBegin(j)
    \/ \E ok \in BOOLEAN : TtsReturn(j, ok)
    \/ \E outcome \in {"ok", "notfound", "noexec", "error"}, probed \in ProbeDurations \cup {0} :
          ProbeReturn(j, outcome, probed)
    \/ ParamBuilding(j)
    \/ \E io \in {"ok", "oserror"} : WriteParameter(j, io)
    \/ \E outcome \in {"produced", "exit0", "nonzero"} : RenderReturn(j, outcome)

(***************************************************************************)
(* Submissions.                                                            *)
(***************************************************************************)
Hello == <<"h", "e", "l", "l", "o">>
Blank == <<" ">>

\* a document with a spoken item and an item without text, no hook text
DocItems ==
    Parameter(Num(30), Num(900),
              <<Scene(0, None, None, NoAudio), Scene(90, Some(10000), None, NoAudio)>>,
              <<Group("g1", Some(500), <<Item(Some(Hello), None, None), Item(Some(Blank), None, None)>>)>>)

\* a document whose only audio is the hook scene's
DocHook ==
    Parameter(Num(30), Absent,
              <<Scene(0, None, Some(<<"h", "i">>), NoAudio)>>,
              <<Group("g1", None, <<>>)>>)

\* the submissions of the concurrent service
Requests ==
    {Request("abc", DocItems, Options(TRUE, FALSE, TRUE, FALSE)),
     Request("abc", DocHook, Options(FALSE, TRUE, FALSE, FALSE))}

\* the status filters the polls of the model use
Filters == {None, Some("running"), Some("done")}

\* the service: submissions drawn from requests, at most cap of them accepted
Serve(requests, cap) ==
    \/ \E req \in requests : CreateJob(req, cap)
    \/ \E j \in JobIds : JobStep(j)

Poll ==
    \/ \E job_id \in JobIds : GetJob(job_id)
    \/ \E status \in Filters : ListJobs(status)

Next == Serve(Requests, MaxJobs) \/ Poll

Spec == Init /\ [][Next]_vars


\* the background tasks are scheduled and every external call returns
FairSpec == Spec /\ \A j \in JobIds : WF_vars(JobStep(j))

(***************************************************************************)
(* One submission on a freshly started service, drawn from families of     *)
(* documents: client path strings in an item's voice or in the hook       *)
(* scene's audio descriptor, and every combination of the options.         *)
(***************************************************************************)
\* the longest client path string of the family, in tokens
MaxPathLen == 3

PathTokens == {"", ".", "..", " ", "etc", "abc"}

\* the string of a token sequence (the one-token sequence <<"">> is the
\* empty string)
ClientPath(tokens) == IF tokens = <<"">> THEN <<>> ELSE tokens

Traversal == <<"..", "..", "etc", "passwd">>

VoicePaths ==
    {ClientPath(tokens) : tokens \in UNION {[1..n -> PathTokens] : n \in 1..MaxPathLen}}
    \cup {Traversal}

\* a document whose only item names the voice path
DocVoice(path) ==
    Parameter(Num(30), Absent,
              <<Scene(0, None, None, NoAudio)>>,
              <<Group("g1", None, <<Item(Some(Hello), Some(path), None)>>)>>)

\* a document whose hook scene names the audio path in a descriptor object
DocHookAudio(path) ==
    Parameter(Absent, Num(900),
              <<Scene(0, None, Some(Hello), AudioDict(Some(path), None))>>,
              <<Group("g1", None, <<>>)>>)

\* a document whose hook scene names the audio path as a plain string
DocHookAudioStr(path) ==
    Parameter(Absent, Num(900),
              <<Scene(0, None, Some(Hello), AudioStr(path))>>,
              <<>>)

\* a document with nothing to synthesize
DocEmpty == Parameter(Absent, Absent, <<>>, <<>>)

PathRequests ==
    {Request("abc", DocVoice(path), Options(TRUE, TRUE, gen, FALSE)) :
        path \in VoicePaths, gen \in BOOLEAN}
    \cup {Request("abc", DocHookAudio(path), Options(FALSE, TRUE, gen, FALSE)) :
        path \in VoicePaths, gen \in BOOLEAN}
    \cup {Request("abc", DocHookAudioStr(path), Options(FALSE, FALSE, TRUE, FALSE)) :
        path \in {Traversal, <<>>, <<"", "etc">>}}

OptionRequests ==
    {Request("abc", doc, Options(r, o, g, d)) :
        doc \in {DocItems, DocEmpty}, r \in BOOLEAN, o \in BOOLEAN, g \in BOOLEAN, d \in BOOLEAN}

\* item texts: absent, empty, whitespace only, and texts with characters
Texts ==
    {None, Some(<<>>), Some(Blank), Some(<<" ", " ">>), Some(Hello),
     Some(<<" ", "h", "i", " ">>)}

\* a document of two groups whose items have the given texts; the first
\* item comes with a voiceSec
DocTexts(text1, text2) ==
    Parameter(Num(30), Absent,
              <<Scene(0, None, None, NoAudio)>>,
              <<Group("g1", Some(500), <<Item(text1, None, Some(5000)), Item(text2, None, None)>>),
                Group("g2", None, <<Item(text1, None, None)>>)>>)

TextRequests ==
    {Request("abc", DocTexts(text1, text2), Options(FALSE, TRUE, gen, FALSE)) :
        text1 \in Texts, text2 \in Texts, gen \in BOOLEAN}

\* item texts of 8, 16 and 24 characters: estimated at 1.0, 2.0 and 3.0 s
Text8 == [i \in 1..8 |-> "a"]
Text16 == [i \in 1..16 |-> "a"]
Text24 == [i \in 1..24 |-> "a"]

\* the scenes after scene 0: none, or two scenes of 10.0 and 8.2 s
RestScenes ==
    {<<>>, <<Scene(90, Some(10000), None, NoAudio), Scene(390, Some(8200), None, NoAudio)>>}

\* (fps, durationInFrames) of the render spec
RenderSpecs ==
    {<<Absent, Absent>>, <<Num(30), Num(900)>>, <<Num(25), Num(0)>>, <<NotANumber, Num(900)>>,
     <<Num(0), Num(900)>>}

\* a document for the timing: scene 0 with the given text and audio
\* descriptor, one script group of items with the given texts
DocTiming(hookText, audio, texts, gap, renderSpec, rest) ==
    Parameter(renderSpec[1], renderSpec[2],
              <<Scene(0, None, hookText, audio)>> \o rest,
              <<Group("g1", gap, [i \in 1..Len(texts) |-> Item(Some(texts[i]), None, None)])>>)

TimingRequests ==
    {Request("abc", DocTiming(hookText, audio, texts, gap, renderSpec, rest),
             Options(FALSE, TRUE, gen, FALSE)) :
        hookText \in {None, Some(<<"h", "i">>)},
        audio \in {NoAudio, AudioDict(None, None), AudioDict(None, Some(0)),
                   AudioDict(None, Some(4000)), AudioDict(None, Some(-1000))},
        texts \in {<<>>, <<Text8>>, <<Text16, Text24>>},
        gap \in {None, Some(500)},
        renderSpec \in RenderSpecs,
        rest \in RestScenes,
        gen \in BOOLEAN}

\* render specs for the fallback of the total duration
FallbackSpecs ==
    RenderSpecs \cup {<<Num(25), Num(900)>>, <<Absent, Num(900)>>, <<Num(30), Absent>>,
                      <<Num(30), Num(100)>>, <<Num(30), NotANumber>>}

\* a document without script groups: no hook duration, scenes with or
\* without durations
DocFallback(renderSpec, rest) ==
    Parameter(renderSpec[1], renderSpec[2], <<Scene(0, None, None, NoAudio)>> \o rest, <<>>)

FallbackRequests ==
    {Request("abc", DocFallback(renderSpec, rest), Options(FALSE, TRUE, TRUE, FALSE)) :
        renderSpec \in FallbackSpecs, rest \in RestScenes}

\* a document of two script groups, with two items and one item, and a hook
\* scene with text
DocOrder ==
    Parameter(Num(30), Absent,
              <<Scene(0, None, Some(<<"h", "i">>), NoAudio)>>,
              <<Group("g1", None, <<Item(Some(Hello), None, None), Item(Some(Text8), None, None)>>),
                Group("g2", None, <<Item(Some(Hello), None, None)>>)>>)

OrderRequests ==
    {Request("abc", DocOrder, Options(FALSE, TRUE, gen, FALSE)) : gen \in BOOLEAN}

\* a document whose group has three items: one submitted with a voice path,
\* one without text, one with text and no voice path
DocThree ==
    Parameter(Num(30), Absent,
              <<Scene(0, None, None, NoAudio)>>,
              <<Group("g1", None, <<Item(Some(Hello), Some(<<"abc", "etc">>), None),
                                    Item(Some(Blank), None, None),
                                    Item(Some(Hello), None, None)>>)>>)

NameRequests ==
    {Request("abc", DocThree, Options(FALSE, TRUE, gen, FALSE)) : gen \in BOOLEAN}

\* documents and requests for the speaker and settings resolution: every
\* source of a setting has its own value (inline 1, the named preset "soft"
\* 2, the preset of the override "narrator" 3, of the speaker key "left" 4,
\* of "hook" 5, request presets 6 and 7)
DocumentPresets ==
    ("soft" :> Dict(("speedScale" :> 2) @@ ("pitchScale" :> 2)))
    @@ ("narrator" :> Dict(("speedScale" :> 3) @@ ("pitchScale" :> 3) @@ ("volumeScale" :> 3)))
    @@ ("left" :> Dict(("speedScale" :> 4) @@ ("pitchScale" :> 4) @@ ("volumeScale" :> 4)
                       @@ ("speakerId" :> 4)))
    @@ ("hook" :> Dict(("speedScale" :> 5) @@ ("volumeScale" :> 5)))
    @@ ("5" :> NotADict)

\* a hook scene and one item, both with the extra attributes extra
DocVoiced(speaker, extra, presets) ==
    [Parameter(Absent, Absent,
               <<[Scene(0, None, Some(Hello), NoAudio) EXCEPT !.extra = extra]>>,
               <<Group("g1", None, <<[Item(Some(Hello), None, None) EXCEPT
                                         !.speaker = speaker, !.extra = extra]>>)>>)
        EXCEPT !.vars = presets]

VoiceRequests ==
    {[Request("abc", DocVoiced(speaker, Extra(voiceSpeaker, voicePreset, voiceTts), presets),
              Options(FALSE, TRUE, TRUE, FALSE)) EXCEPT !.voicePresets = request_presets] :
        speaker \in {None, Some("left")},
        voiceSpeaker \in {None, Some("narrator"), Some("5")},
        voicePreset \in {None, Some("soft")},
        voiceTts \in {None, Some("speedScale" :> 1)},
        presets \in {None, Some([voicePresets |-> None]),
                     Some([voicePresets |-> Some(DocumentPresets)])},
        request_presets \in {None,
                             Some("soft" :> Dict("pitchScale" :> 6)),
                             Some("left" :> Dict("volumeScale" :> 7))}}

DocRequests ==
    PathRequests \cup OptionRequests \cup TextRequests \cup TimingRequests \cup FallbackRequests
    \cup OrderRequests \cup NameRequests
    \cup VoiceRequests

\* artifacts staged before the service starts
DocFileSystems ==
    {{},
     {PrestagedHook,
      ProjectDir("abc") \o <<"media", "audio", "abc-01-01.wav">>,
      ProjectDir("abc") \o <<"etc", "passwd">>,
      ProjectDir("abc") \o <<"abc", "etc">>}}

\* the service right after create_job has accepted its first submission
InitDoc ==
    /\ files \in DocFileSystems
    /\ renderCommandSet \in BOOLEAN
    /\ \E req \in DocRequests :
          /\ jobs = <<JobRecord(1, req)>>
          /\ response = Some(Response("create_job", Posted(req), 202, <<JobSummary(JobRecord(1, req))>>))
          /\ dirs = {PROJECTS_ROOT, VIDEO_OUT_DIR}
                    \cup UNION {Prefixes(Parent(f)) : f \in files}
                    \cup (IF req.options.overwrite THEN {}
                          ELSE Prefixes(Parent(ParameterPath(req.videoId).path)))
    /\ task = <<InitialTask>>
    /\ hist = <<InitialHist>>

NextDoc == \E j \in JobIds : JobStep(j)

SpecDoc == InitDoc /\ [][NextDoc]_vars

(***************************************************************************)
(* Properties of the job lifecycle.                                        *)
(***************************************************************************)
Terminal == {"done", "failed"}

ResultErrorOk(job) ==
    /\ ~(IsSet(job.result) /\ IsSet(job.error))
    /\ IsSet(job.result) <=> job.status = "done"
    /\ IsSet(job.error) <=> job.status = "failed"

\* C1: result and error are never both set, result is set exactly when the
\* status is done and error exactly when it is failed, and a job that is done
\* never becomes failed nor a failed job done.
OneTerminalState ==
    /\ [](\A j \in DOMAIN jobs : ResultErrorOk(jobs[j]))
    /\ [][\A j \in DOMAIN jobs :
             jobs[j].status \in Terminal => jobs'[j].status = jobs[j].status]_vars

\* a job has ended done and another one failed
BothTerminalKinds ==
    \E a, b \in DOMAIN jobs :
        /\ jobs[a].status = "done" /\ IsSet(jobs[a].result)
        /\ jobs[b].status = "failed" /\ IsSet(jobs[b].error)

HasDone(summary) == "ttsDone" \in DOMAIN summary.progress

SnapshotOk(summary) ==
    HasDone(summary) =>
        /\ "ttsTotal" \in DOMAIN summary.progress
        /\ 0 <= summary.progress.ttsDone
        /\ summary.progress.ttsDone <= summary.progress.ttsTotal

\* the summaries a response carries
Snapshots(resp) == IF IsSet(resp) THEN {Val(resp).body[n] : n \in DOMAIN Val(resp).body} ELSE {}

\* C2: every snapshot a poll returns, and every snapshot a poll could
\* return, has 0 <= ttsDone <= ttsTotal, and the ttsDone of a job's snapshot
\* never decreases from one state to the next.
TtsDoneBounded ==
    /\ [](/\ \A s \in Snapshots(response) : SnapshotOk(s)
          /\ \A j \in DOMAIN jobs : SnapshotOk(JobSummary(jobs[j])))
    /\ [][\A j \in DOMAIN jobs :
             HasDone(JobSummary(jobs[j])) =>
                 /\ HasDone(JobSummary(jobs'[j]))
                 /\ jobs'[j].progress.ttsDone >= jobs[j].progress.ttsDone]_vars

\* a poll of one job returns a snapshot taken in the middle of the tts stage
PolledMidway ==
    /\ IsSet(response)
    /\ Val(response).op = "get_job"
    /\ Val(response).status_code = 200
    /\ \E s \in Snapshots(response) :
          HasDone(s) /\ s.progress.ttsDone = 1 /\ s.progress.ttsTotal = 2

\* C3: a job is created queued, the first step of its task makes it running,
\* its status moves only queued -> running -> done or failed, and once it is
\* done or failed its status, result and error stay as they are.
StatusMachine ==
    [][\A j \in DOMAIN jobs' :
          IF j \notin DOMAIN jobs
          THEN jobs'[j].status = "queued"
          ELSE /\ <<jobs[j].status, jobs'[j].status>> \in
                     {<<st, st>> : st \in Statuses}
                     \cup {<<"queued", "running">>, <<"running", "done">>,
                           <<"running", "failed">>}
               /\ (task[j].pc = "queued" /\ task'[j].pc # "queued")
                     => jobs'[j].status = "running"
               /\ jobs[j].status = "queued" => task[j].pc = "queued"
               /\ jobs[j].status \in Terminal =>
                     /\ jobs'[j].result = jobs[j].result
                     /\ jobs'[j].error = jobs[j].error
                     /\ task'[j].pc = "finished"]_vars

\* one job has ended done while the other is still running
DoneBesideRunning ==
    \E a, b \in DOMAIN jobs : jobs[a].status = "done" /\ jobs[b].status = "running"

\* the stage sequences of a job that ends done
StagesWithRender == <<"tts", "param-building", "rendering", "finishing">>
StagesNoRender == <<"tts", "param-building", "finishing">>

\* C6: the distinct values of progress.stage of a job that ends done are tts,
\* param-building, rendering exactly when the render was invoked, finishing;
\* before the end they are a prefix of that sequence.
StageOrder ==
    \A j \in DOMAIN jobs :
        /\ jobs[j].status = "done" =>
              hist[j].stages = IF hist[j].render_calls > 0
                               THEN StagesWithRender ELSE StagesNoRender
        /\ jobs[j].status = "running" =>
              \/ IsPrefix(hist[j].stages, StagesWithRender) /\ hist[j].stages # <<>>
        /\ jobs[j].status = "running" /\ hist[j].render_calls = 0
              => IsPrefix(hist[j].stages, StagesNoRender)

\* a job has ended done after a render and another one without a render
DoneWithAndWithoutRender ==
    \E a, b \in DOMAIN jobs :
        /\ jobs[a].status = "done" /\ hist[a].render_calls = 1
        /\ jobs[b].status = "done" /\ hist[b].render_calls = 0

\* C8: a submission with overwrite = false for a video id whose parameter
\* file or output video exists is answered 409 and creates no job record and
\* no background task.
ConflictRejected ==
    [][(/\ IsSet(response')
        /\ Val(response').op = "create_job"
        /\ ~Val(Val(response').request.body).options.overwrite
        /\ \/ Exists(ParameterPath(Val(Val(response').request.body).videoId).path)
           \/ Exists(ConflictVideoPath(Val(Val(response').request.body).videoId)))
       => /\ Val(response').status_code = 409
          /\ jobs' = jobs
          /\ task' = task]_vars

\* a submission has been rejected with the conflict error after a job of the
\* same video id has written its parameter file
ConflictAfterJob ==
    /\ IsSet(response)
    /\ Val(response).op = "create_job"
    /\ Val(response).status_code = 409
    /\ \E j \in DOMAIN jobs :
          /\ jobs[j].request.videoId = Val(Val(response).request.body).videoId
          /\ IsSet(hist[j].persisted)

\* C4: under fair scheduling of the background tasks, with every external
\* call returning or failing, and whatever submissions and polls are
\* interleaved, from some point on every accepted job is done or failed: no
\* job stays queued or running forever.  (The service accepts at most
\* MaxJobs submissions, so this says of each accepted job that it eventually
\* is done or failed.)
EventuallyTerminal ==
    <>[](\A j \in DOMAIN jobs : jobs[j].status \in Terminal)

\* every job the service accepts has ended and a poll has listed them
AllEndedAndListed ==
    /\ Len(jobs) = MaxJobs
    /\ \A j \in DOMAIN jobs : jobs[j].status \in Terminal
    /\ IsSet(response)
    /\ Val(response).op = "list_jobs"
    /\ Len(Val(response).body) = MaxJobs

FailureMessages ==
    {"tts request failed", "voice file missing", "ffprobe failed",
     "unsafe path detected", "voice path is empty", "write failed", "File exists",
     "Is a directory", "Remotion render failed", "Remotion output not found"}

\* C5: a background task that ends without the job being done leaves the job,
\* which was running, failed with the descriptor {code: internal_error,
\* message: the failure message}, stage failed and no result; a task never
\* ends leaving its job queued or running.
FailureIsRecorded ==
    /\ [](\A j \in DOMAIN jobs :
             task[j].pc = "finished" <=> jobs[j].status \in Terminal)
    /\ [][\A j \in DOMAIN jobs :
             (task[j].pc # "finished" /\ task'[j].pc = "finished"
                /\ jobs'[j].status # "done")
             => /\ jobs[j].status = "running"
                /\ jobs'[j].status = "failed"
                /\ IsSet(jobs'[j].error)
                /\ Val(jobs'[j].error).code = "internal_error"
                /\ Val(jobs'[j].error).message \in FailureMessages
                /\ jobs'[j].result = None
                /\ jobs'[j].progress.stage = "failed"]_vars

\* a job has failed on a missing pre-staged voice file
FailedOnMissingVoice ==
    \E j \in DOMAIN jobs :
        /\ task[j].pc = "finished"
        /\ jobs[j].status = "failed"
        /\ jobs[j].error = Some([code |-> "internal_error", message |-> "voice file missing"])
        /\ jobs[j].result = None

\* C7: the render is invoked only for a job with render = true and dryRun =
\* false while a render command is configured; any other job never enters
\* the rendering stage, never waits for a render, has no videoPath in its
\* result and is done once its parameter file is written.
RenderOnlyWhenWanted ==
    \A j \in DOMAIN jobs :
        LET options == jobs[j].request.options
        IN  IF options.render /\ ~options.dryRun /\ renderCommandSet
            THEN jobs[j].status = "done" => hist[j].render_calls = 1
            ELSE /\ hist[j].render_calls = 0
                 /\ task[j].pc # "render_wait"
                 /\ \A n \in DOMAIN hist[j].stages : hist[j].stages[n] # "rendering"
                 /\ IsSet(jobs[j].result) => ~IsSet(Val(jobs[j].result).videoPath)
                 /\ IsSet(hist[j].persisted) => jobs[j].status = "done"

\* a dry run that asked for a render, with a render command configured, is
\* done without a render
DryRunDoneWithoutRender ==
    \E j \in DOMAIN jobs :
        /\ jobs[j].request.options.render
        /\ jobs[j].request.options.dryRun
        /\ renderCommandSet
        /\ jobs[j].status = "done"
        /\ hist[j].render_calls = 0
        /\ ~IsSet(Val(jobs[j].result).videoPath)

\* the voice paths the items of a document name
ItemVoices(parameter) ==
    {Val(parameter.scriptGroups[g].items[i].voice) :
        <<g, i>> \in {<<g2, i2>> \in
            UNION {{g3} \X DOMAIN parameter.scriptGroups[g3].items :
                      g3 \in DOMAIN parameter.scriptGroups} :
            IsSet(parameter.scriptGroups[g2].items[i2].voice)}}

\* the audio path the hook scene of a document names
HookAudio(parameter) ==
    IF parameter.scenes # <<>> /\ IsSet(parameter.scenes[1].audio.src)
    THEN {Val(parameter.scenes[1].audio.src)} ELSE {}

\* the path string, joined as written onto the project directory, leaves it
Escapes(video_id, path) ==
    ~IsPrefix(ProjectDir(video_id), Resolve(ProjectDir(video_id) \o path))

AttemptsTraversal(request) ==
    \E path \in ItemVoices(request.parameter) \cup HookAudio(request.parameter) :
        Escapes(request.videoId, path)

\* the path of the artifact has been resolved
Resolved(j) == task[j].pc \notin {"queued", "tts_init", "item", "hook"}

\* C9 as stated: a job naming a path that attempts traversal fails with the
\* unsafe-path error once the path is resolved, and writes no audio file.
TraversalRejected ==
    \A j \in DOMAIN jobs :
        (AttemptsTraversal(jobs[j].request) /\ Resolved(j))
        => /\ jobs[j].status = "failed"
           /\ Val(jobs[j].error).message = "unsafe path detected"
           /\ \A op \in hist[j].fsops : op.op # "write"

\* C9: a job naming a path that attempts traversal never fails with the
\* unsafe-path error; the artifact is resolved to a path under the project
\* directory without "..", "." or empty segments (../../etc/passwd to
\* <project>/etc/passwd), and every audio file the job writes, probes or
\* tests lies under the project directory.
TraversalNeutralised ==
    \A j \in DOMAIN jobs :
        AttemptsTraversal(jobs[j].request)
        => /\ IsSet(jobs[j].error) =>
                 Val(jobs[j].error).message # "unsafe path detected"
           /\ task[j].pc \in {"tts_wait", "probe_wait"} =>
                 /\ IsPrefix(ProjectDir(jobs[j].request.videoId), task[j].target)
                 /\ \A n \in DOMAIN task[j].target :
                        task[j].target[n] \notin {"", ".", ".."}
                 /\ task[j].voice_path = Traversal =>
                        task[j].target =
                            ProjectDir(jobs[j].request.videoId) \o <<"etc", "passwd">>
           /\ \A op \in hist[j].fsops :
                 op.op \in {"write", "write_failed", "probe", "exists"} =>
                     IsPrefix(ProjectDir(jobs[j].request.videoId), op.path)

\* the job whose item names ../../etc/passwd is done, its audio written at
\* etc/passwd under the project directory
TraversalWritten ==
    \E j \in DOMAIN jobs :
        /\ Traversal \in ItemVoices(jobs[j].request.parameter)
        /\ jobs[j].status = "done"
        /\ FsOp("write", ProjectDir(jobs[j].request.videoId) \o <<"etc", "passwd">>)
              \in hist[j].fsops
        /\ ProjectDir(jobs[j].request.videoId) \o <<"etc", "passwd">> \in files

\* C10: whatever path strings a document names, every audio file the
\* synthesis stage writes lies below the job's project directory, every path
\* it probes or tests for existence is the project directory or lies below
\* it, the target of a pending TTS call or probe is such a path, and the
\* parameter file is written below the projects root.
ArtifactsUnderProject ==
    \A j \in DOMAIN jobs :
        LET project == ProjectDir(jobs[j].request.videoId)
        IN  /\ \A op \in hist[j].fsops :
                  IF op.op = "write_param"
                  THEN IsPrefix(PROJECTS_ROOT, op.path) /\ Len(op.path) > Len(PROJECTS_ROOT)
                  ELSE /\ IsPrefix(project, op.path)
                       /\ op.op = "write" => Len(op.path) > Len(project)
            /\ task[j].pc \in {"tts_wait", "probe_wait"} => IsPrefix(project, task[j].target)
            /\ \A f \in files : IsPrefix(PROJECTS_ROOT, f) \/ IsPrefix(VIDEO_OUT_DIR, f)

\* a job whose hook scene names a path that attempts traversal has written
\* and probed its audio and written its parameter file
HookTraversalProbed ==
    \E j \in DOMAIN jobs :
        /\ \E path \in HookAudio(jobs[j].request.parameter) :
              Escapes(jobs[j].request.videoId, path)
        /\ {op.op : op \in hist[j].fsops} = {"write", "probe", "write_param"}
        /\ jobs[j].status = "done"

\* a summary that is one state of a job record, not a mix of two
WholeSummary(s) ==
    /\ s.status = "done" <=> IsSet(s.result)
    /\ s.status = "failed" <=> IsSet(s.error)
    /\ s.status = "queued" <=> s.progress.stage = "waiting"
    /\ s.status = "done" <=> s.progress.stage = "finishing"
    /\ s.status = "failed" <=> s.progress.stage = "failed"
    /\ "ttsDone" \in DOMAIN s.progress <=> "ttsTotal" \in DOMAIN s.progress

\* C11: every summary a response carries is whole and is the job record as it
\* stands when the handler answers; what a task has counted and computed is
\* in its job's record (no update is lost); and a job's record changes only
\* in a step of its own task, whatever submissions, polls and steps of other
\* jobs are interleaved.
UpdatesSerialized ==
    /\ [](\A s \in Snapshots(response) :
             /\ WholeSummary(s)
             /\ s.jobId \in DOMAIN jobs
             /\ s.status = jobs[s.jobId].status
             /\ s.progress = jobs[s.jobId].progress
             /\ s.result = jobs[s.jobId].result
             /\ s.error = jobs[s.jobId].error)
    /\ [](\A j \in DOMAIN jobs :
             /\ task[j].pc \in {"item", "hook", "tts_wait", "probe_wait"} =>
                   jobs[j].progress.ttsDone = task[j].done
             /\ jobs[j].status = "done" => jobs[j].result = task[j].result)
    /\ [][\A j \in DOMAIN jobs : task'[j] = task[j] => jobs'[j] = jobs[j]]_vars

\* a listing shows a job that is done with its result beside a job in the
\* middle of its tts stage
ListedDoneBesideRunning ==
    /\ IsSet(response)
    /\ Val(response).op = "list_jobs"
    /\ \E a, b \in Snapshots(response) :
          /\ a.status = "done" /\ IsSet(a.result)
          /\ b.status = "running" /\ b.progress.stage = "tts"
          /\ "ttsDone" \in DOMAIN b.progress /\ b.progress.ttsDone = 1

\* progress patches of the kinds _run_job and _process_script_groups send
Patches ==
    {NoPatch, [stage |-> "rendering"], [ttsDone |-> 1],
     [stage |-> "tts", ttsTotal |-> 2, ttsDone |-> 0]}

\* the update of job j of the registry by a progress patch alone
PatchFrame(registry, j, patch) ==
    LET new == UpdateJob(registry, j, None, patch, None, None)
        old == registry[j].progress
    IN  /\ DOMAIN new = DOMAIN registry
        /\ \A other \in DOMAIN registry \ {j} : new[other] = registry[other]
        /\ DOMAIN new[j].progress = DOMAIN old \cup DOMAIN patch
        /\ \A key \in DOMAIN patch : new[j].progress[key] = patch[key]
        /\ \A key \in DOMAIN old \ DOMAIN patch : new[j].progress[key] = old[key]
        /\ new[j].status = registry[j].status
        /\ new[j].result = registry[j].result
        /\ new[j].error = registry[j].error
        /\ new[j].request = registry[j].request

\* C12: on every registry the service reaches, an update by a progress patch
\* overwrites the patch's keys, keeps every other key of progress, keeps
\* status, result and error, and keeps every other job's record; and in the
\* runs, once ttsTotal and ttsDone are in a job's progress they stay there,
\* ttsTotal with its value, through all later stage changes.
ProgressMerged ==
    /\ [](\A j \in DOMAIN jobs : \A patch \in Patches : PatchFrame(jobs, j, patch))
    /\ [][\A j \in DOMAIN jobs :
             "ttsTotal" \in DOMAIN jobs[j].progress =>
                 /\ {"stage", "ttsTotal", "ttsDone"} \subseteq DOMAIN jobs'[j].progress
                 /\ jobs'[j].progress.ttsTotal = jobs[j].progress.ttsTotal]_vars

\* a job is done after a render with its counters still in its progress,
\* beside another job
CountersSurviveRender ==
    \E a, b \in DOMAIN jobs :
        /\ a # b
        /\ hist[a].render_calls = 1
        /\ jobs[a].progress = [stage |-> "finishing", ttsTotal |-> 2, ttsDone |-> 2]

\* the positions <<group, item>> of the script items of a document
Positions(parameter) ==
    UNION {{g} \X DOMAIN parameter.scriptGroups[g].items : g \in DOMAIN parameter.scriptGroups}

\* the text of the item is absent, empty or made of whitespace
BlankAt(parameter, pos) ==
    LET text == parameter.scriptGroups[pos[1]].items[pos[2]].text
    IN  IsSet(text) => \A n \in DOMAIN Val(text) : Val(text)[n] = " "

\* the events of job j, as a set of <<index, event>>
EventsOf(j) == {<<n, hist[j].events[n]>> : n \in DOMAIN hist[j].events}

\* C13: an item whose text is absent, empty or whitespace is one of the
\* ttsTotal artifacts; it never gets a TTS call, an audio write, an existence
\* test or a probe; when it is processed ttsDone goes up by one and its
\* voiceSec is 0 from then on.
BlankItemsCounted ==
    \A j \in DOMAIN jobs :
        LET doc == jobs[j].request.parameter
            blanks == {pos \in Positions(doc) : BlankAt(doc, pos)}
            dones == {e \in EventsOf(j) : e[2].op = "done"}
        IN  /\ "ttsTotal" \in DOMAIN jobs[j].progress =>
                  /\ jobs[j].progress.ttsTotal =
                        Cardinality(Positions(doc)) + (IF HookRequired(doc) THEN 1 ELSE 0)
                  /\ jobs[j].progress.ttsDone = Cardinality(dones)
            /\ \A e \in EventsOf(j) :
                  e[2].pos \in blanks =>
                      /\ e[2].op = "done"
                      /\ e[2].n = Cardinality({d \in dones : d[1] < e[1]}) + 1
                      /\ Draft(j).scriptGroups[e[2].pos[1]].items[e[2].pos[2]].voiceSec = Some(0)

\* a job is done whose first item, submitted with a voiceSec, is whitespace
\* and whose second item was synthesized
BlankItemSkipped ==
    \E j \in DOMAIN jobs :
        /\ jobs[j].request.parameter = DocTexts(Some(Blank), Some(Hello))
        /\ jobs[j].status = "done"
        /\ jobs[j].progress.ttsTotal = 3 /\ jobs[j].progress.ttsDone = 3
        /\ hist[j].events[1] = Event("done", <<1, 1>>, 1)
        /\ Draft(j).scriptGroups[1].items[1].voiceSec = Some(0)
        /\ \E e \in EventsOf(j) : e[2] = Event("write", <<1, 2>>, 0)

\* C14: in a job with generateAudio = false no TTS call is made and no audio
\* is written; the probe of an artifact is reached only when its file
\* exists; and when the file tested does not exist the job is failed with
\* the voice-file-missing error, the test is the last event of its tts
\* stage, and ttsDone is the number of artifacts completed before it.
MissingVoiceFails ==
    \A j \in DOMAIN jobs :
        ~jobs[j].request.options.generateAudio =>
            /\ \A e \in EventsOf(j) : e[2].op \in {"exists", "probe", "done"}
            /\ task[j].pc = "probe_wait" => Exists(task[j].target)
            /\ \A op \in hist[j].fsops :
                  (op.op = "exists" /\ ~Exists(op.path)) =>
                      /\ task[j].pc = "finished"
                      /\ jobs[j].status = "failed"
                      /\ Val(jobs[j].error).message = "voice file missing"
                      /\ hist[j].events[Len(hist[j].events)].op = "exists"
                      /\ jobs[j].progress.ttsDone =
                            Cardinality({e \in EventsOf(j) : e[2].op = "done"})
                      /\ jobs[j].progress.ttsDone < jobs[j].progress.ttsTotal

\* a job without audio generation has completed its first item and failed on
\* the missing file of its second; the third item was never looked at
FailedAtSecondItem ==
    \E j \in DOMAIN jobs :
        /\ ~jobs[j].request.options.generateAudio
        /\ jobs[j].status = "failed"
        /\ Val(jobs[j].error).message = "voice file missing"
        /\ jobs[j].progress.ttsDone = 1 /\ jobs[j].progress.ttsTotal = 3
        /\ hist[j].events[Len(hist[j].events)] = Event("exists", <<1, 2>>, 0)
        /\ hist[j].events[1] = Event("exists", <<1, 1>>, 0)

\* C15: no step of a job changes the request of a job record, and the
\* document persisted by a step is the task's own copy as that step leaves
\* it.
RequestUntouched ==
    [][\A j \in DOMAIN jobs :
          /\ jobs'[j].request = jobs[j].request
          /\ hist'[j].persisted # hist[j].persisted =>
                hist'[j].persisted = task'[j].parameter]_vars

\* a done job whose persisted copy carries the voice path and duration of
\* its items, the hook's audio descriptor with its duration, the duration
\* of scene 0 and meta.videoId, while the request's document has none
CopyWrittenRequestIntact ==
    \E j \in DOMAIN jobs :
        /\ jobs[j].status = "done"
        /\ IsSet(hist[j].persisted)
        /\ LET original == jobs[j].request.parameter
               copy == Val(hist[j].persisted)
           IN  /\ original.scenes # <<>> /\ original.scriptGroups # <<>>
               /\ Len(original.scriptGroups[1].items) = 2
               /\ \A i \in 1..2 :
                     /\ original.scriptGroups[1].items[i].voice = None
                     /\ original.scriptGroups[1].items[i].voiceSec = None
                     /\ IsSet(copy.scriptGroups[1].items[i].voice)
                     /\ copy.scriptGroups[1].items[i].voiceSec = Some(2000)
               /\ original.scenes[1].audio = NoAudio
               /\ copy.scenes[1].audio.kind = "dict"
               /\ copy.scenes[1].audio.src = Some(HOOK_AUDIO_PATH)
               /\ copy.scenes[1].audio.durationSec = Some(2000)
               /\ original.scenes[1].durationSec = None
               /\ copy.scenes[1].durationSec = Some(2000)
               /\ original.meta.videoId = None
               /\ copy.meta.videoId = Some(jobs[j].request.videoId)

\* the sum of the durations of the scenes of a document that have one
RECURSIVE ScenesSum(_)
ScenesSum(scenes) ==
    IF scenes = <<>> THEN 0
    ELSE (IF IsSet(Head(scenes).durationSec) THEN Val(Head(scenes).durationSec) ELSE 0)
         + ScenesSum(Tail(scenes))

\* the hook duration of a document is computable: it has a scene 0 and a
\* first script group
HookComputable(parameter) == parameter.scenes # <<>> /\ parameter.scriptGroups # <<>>

\* frames / fps of the render spec is a positive number
FallbackComputable(parameter) ==
    /\ parameter.spec.durationInFrames.kind = "num"
    /\ parameter.spec.durationInFrames.n > 0
    /\ \/ parameter.spec.fps.kind = "absent"
       \/ parameter.spec.fps.kind = "num" /\ parameter.spec.fps.n > 0

\* the total duration of a document is computable
TotalComputable(parameter) ==
    ScenesSum(parameter.scenes) # 0 \/ FallbackComputable(parameter)

\* C16: every done job has a result with parameterPath; the document has
\* been written to that path (the write is recorded and the file is there);
\* the result has hookSec exactly when the persisted document has a scene 0
\* and a script group, and totalSec exactly when its scene durations have a
\* non-zero sum or frames / fps is a positive number.
DoneHasResult ==
    \A j \in DOMAIN jobs :
        jobs[j].status = "done" =>
            /\ IsSet(jobs[j].result)
            /\ IsSet(hist[j].persisted)
            /\ LET result == Val(jobs[j].result)
                   parameter == Val(hist[j].persisted)
               IN  /\ result.parameterPath =
                         ProjectDir(jobs[j].request.videoId) \o <<"parameter.json">>
                   /\ result.parameterPath \in files
                   /\ FsOp("write_param", result.parameterPath) \in hist[j].fsops
                   /\ IsSet(result.hookSec) <=> HookComputable(parameter)
                   /\ IsSet(result.totalSec) <=> TotalComputable(parameter)

\* a done job whose result carries the location of the written document, a
\* hook duration of 6.3 s and a total of 24.5 s
DoneWithHookAndTotal ==
    \E j \in DOMAIN jobs :
        /\ jobs[j].status = "done"
        /\ Val(jobs[j].result).hookSec = Some(6300)
        /\ Val(jobs[j].result).totalSec = Some(24500)
        /\ Val(jobs[j].result).parameterPath \in files

\* scene 0's audio descriptor of a document states no duration
NoStatedDuration(parameter) ==
    parameter.scenes[1].audio.kind # "dict" \/ ~IsSet(parameter.scenes[1].audio.durationSec)

\* the recorded voice duration of an item (0 when it has none)
RecordedSec(item) == IF IsSet(item.voiceSec) THEN Val(item.voiceSec) ELSE 0

\* the duration an item counts with: its recorded voice duration, or the
\* estimate from its text when the recorded duration is zero or absent
CountedSec(item) ==
    IF RecordedSec(item) # 0 THEN RecordedSec(item) ELSE EstimateVoiceSec(item.text)

\* max(minimum, sum of the durations + gap * (n - 1) + margin) in ms
HookPolicy(durations, gapSec) ==
    LET gap == IF IsSet(gapSec) THEN Val(gapSec) ELSE 0
        total == SumSeq(durations) + gap * (Len(durations) - 1) + 800
    IN  IF total > 3000 THEN total ELSE 3000

\* the persisted document and the result of job j agree with a hook duration
HookIs(j, expected) ==
    /\ Val(hist[j].persisted).scenes[1].durationSec = Some(expected)
    /\ jobs[j].status = "done" => Val(jobs[j].result).hookSec = Some(expected)

\* C17 as stated: with no stated duration in scene 0's audio descriptor the
\* hook duration is max(3.0, sum of the recorded voice durations of the first
\* group's items + gap * (n - 1) + 0.8), written to scene 0 and returned as
\* hookSec.
HookFromRecordedDurations ==
    \A j \in DOMAIN jobs :
        IsSet(hist[j].persisted) =>
            LET parameter == Val(hist[j].persisted)
            IN  (HookComputable(parameter) /\ NoStatedDuration(parameter)) =>
                    LET first_group == parameter.scriptGroups[1]
                    IN  HookIs(j, HookPolicy([i \in 1..Len(first_group.items) |->
                                                 RecordedSec(first_group.items[i])],
                                             first_group.gapSec))

\* C17: with no stated duration in scene 0's audio descriptor the hook
\* duration is max(3.0, sum of the durations of the first group's items
\* + gap * (n - 1) + 0.8), an item counting with its recorded voice duration
\* or, when that is zero, with the estimate from its text; the value is
\* written to scene 0's durationSec and returned as hookSec.
HookFromCountedDurations ==
    \A j \in DOMAIN jobs :
        IsSet(hist[j].persisted) =>
            LET parameter == Val(hist[j].persisted)
            IN  (HookComputable(parameter) /\ NoStatedDuration(parameter)) =>
                    LET first_group == parameter.scriptGroups[1]
                    IN  HookIs(j, HookPolicy([i \in 1..Len(first_group.items) |->
                                                 CountedSec(first_group.items[i])],
                                             first_group.gapSec))

\* a done job whose first group's items have the recorded durations 2.0 and
\* 3.0 s with a gap of 0.5 s: scene 0 lasts 6.3 s and hookSec is 6.3
HookSixPointThree ==
    \E j \in DOMAIN jobs :
        /\ jobs[j].status = "done"
        /\ LET parameter == Val(hist[j].persisted)
           IN  /\ HookComputable(parameter) /\ NoStatedDuration(parameter)
               /\ parameter.scriptGroups[1].gapSec = Some(500)
               /\ Len(parameter.scriptGroups[1].items) = 2
               /\ parameter.scriptGroups[1].items[1].voiceSec = Some(2000)
               /\ parameter.scriptGroups[1].items[2].voiceSec = Some(3000)
               /\ parameter.scenes[1].durationSec = Some(6300)
        /\ Val(jobs[j].result).hookSec = Some(6300)

\* a done job whose only item lasts 1.0 s: the hook duration is the minimum
HookAtMinimum ==
    \E j \in DOMAIN jobs :
        /\ jobs[j].status = "done"
        /\ LET parameter == Val(hist[j].persisted)
           IN  /\ HookComputable(parameter) /\ NoStatedDuration(parameter)
               /\ Len(parameter.scriptGroups[1].items) = 1
               /\ parameter.scriptGroups[1].items[1].voiceSec = Some(1000)
        /\ Val(jobs[j].result).hookSec = Some(3000)

\* frames / fps of a render spec in ms, fps defaulting to 30
FramesOverFps(spec) ==
    RoundDiv(spec.durationInFrames.n * 1000, IF spec.fps.kind = "absent" THEN 30 ELSE spec.fps.n)

\* C18: the totalSec of a done job is the sum of the durations of the scenes
\* of the persisted document that have one, whatever the render spec says;
\* when that sum is zero it is frames / fps (fps 30 when absent), and when
\* moreover the frame count is zero or absent there is no totalSec.
TotalFromScenes ==
    \A j \in DOMAIN jobs :
        jobs[j].status = "done" =>
            LET parameter == Val(hist[j].persisted)
                totalSec == Val(jobs[j].result).totalSec
                sum == ScenesSum(parameter.scenes)
                frames == parameter.spec.durationInFrames
            IN  /\ sum > 0 => totalSec = Some(sum)
                /\ (sum = 0 /\ FallbackComputable(parameter)) =>
                      totalSec = Some(FramesOverFps(parameter.spec))
                /\ (sum = 0 /\ (frames.kind = "absent" \/ frames = Num(0))) =>
                      totalSec = None

\* a done job whose scenes last 6.3, 10.0 and 8.2 s and whose render spec
\* says 900 frames at 30 fps: totalSec is 24.5, not 30
TotalTwentyFourPointFive ==
    \E j \in DOMAIN jobs :
        /\ jobs[j].status = "done"
        /\ LET parameter == Val(hist[j].persisted)
           IN  /\ parameter.spec = [fps |-> Num(30), durationInFrames |-> Num(900)]
               /\ [i \in 1..Len(parameter.scenes) |-> parameter.scenes[i].durationSec]
                     = <<Some(6300), Some(10000), Some(8200)>>
        /\ Val(jobs[j].result).totalSec = Some(24500)

\* done jobs without scene durations: 100 frames at 30 fps give 3.333 s
TotalFromFrames ==
    \E j \in DOMAIN jobs :
        /\ jobs[j].status = "done"
        /\ ScenesSum(Val(hist[j].persisted).scenes) = 0
        /\ Val(hist[j].persisted).spec = [fps |-> Num(30), durationInFrames |-> Num(100)]
        /\ Val(jobs[j].result).totalSec = Some(3333)

\* a done job without scene durations and without a frame count: no totalSec
NoTotal ==
    \E j \in DOMAIN jobs :
        /\ jobs[j].status = "done"
        /\ ScenesSum(Val(hist[j].persisted).scenes) = 0
        /\ Val(hist[j].persisted).spec = [fps |-> Num(30), durationInFrames |-> Absent]
        /\ Val(jobs[j].result).totalSec = None

\* the place of an artifact in the document order: script groups in order,
\* the items of a group in order, the hook scene (<<0, 0>>) after all items
Rank(parameter, pos) ==
    IF pos = <<0, 0>> THEN Cardinality(Positions(parameter)) + 1
    ELSE Cardinality({q \in Positions(parameter) :
                         q[1] < pos[1] \/ (q[1] = pos[1] /\ q[2] <= pos[2])})

\* C19: every event of the tts stage of a job concerns the artifact whose
\* place in the document order is one more than the number of artifacts
\* completed before the event, so the artifacts are processed in document
\* order with the hook scene last; the k-th completion publishes ttsDone = k,
\* and the published ttsDone is the number of completions.
ProcessedInDocumentOrder ==
    \A j \in DOMAIN jobs :
        LET doc == jobs[j].request.parameter
            dones == {e \in EventsOf(j) : e[2].op = "done"}
        IN  /\ \A e \in EventsOf(j) :
                  LET k == Cardinality({d \in dones : d[1] < e[1]}) + 1
                  IN  /\ Rank(doc, e[2].pos) = k
                      /\ e[2].op = "done" => e[2].n = k
            /\ "ttsDone" \in DOMAIN jobs[j].progress =>
                  jobs[j].progress.ttsDone = Cardinality(dones)

\* the event publishes a value of ttsDone
IsDone(event) == event.op = "done"

\* a job of two script groups and a hook scene has completed its four
\* artifacts: the items of the first group, the item of the second, the hook
AllFourInOrder ==
    \E j \in DOMAIN jobs :
        /\ jobs[j].progress.stage = "tts"
        /\ "ttsDone" \in DOMAIN jobs[j].progress
        /\ jobs[j].progress.ttsDone = 4
        /\ SelectSeq(hist[j].events, IsDone) =
                      <<Event("done", <<1, 1>>, 1), Event("done", <<1, 2>>, 2),
                        Event("done", <<2, 1>>, 3), Event("done", <<0, 0>>, 4)>>

(***************************************************************************)
(* Two submissions with audio generation, for the TTS calls of one job and *)
(* of two jobs.                                                            *)
(***************************************************************************)
\* a document of one script group with two spoken items, no hook text
DocPair ==
    Parameter(Num(30), Absent,
              <<Scene(0, None, None, NoAudio)>>,
              <<Group("g1", None, <<Item(Some(Hello), None, None), Item(Some(Text8), None, None)>>)>>)

PairRequests ==
    {Request("abc", DocPair, Options(FALSE, TRUE, TRUE, FALSE)),
     Request("abd", DocHook, Options(TRUE, TRUE, TRUE, FALSE))}

InitPair == InitOn({{}})

NextPair == Serve(PairRequests, MaxJobs)

SpecPair == InitPair /\ [][NextPair]_vars

\* the events of job j between the indexes a and b (exclusive) with the
\* operation op on the artifact at pos
Between(j, a, b, op, pos) ==
    {m \in DOMAIN hist[j].events :
        a < m /\ m < b /\ hist[j].events[m].op = op /\ hist[j].events[m].pos = pos}

\* C20: within a job, a TTS call that has returned is followed at once by
\* the write of its audio, and before the job issues another TTS call the
\* audio of the former has been written, then probed, then its completion
\* published, and the duration of the item is in the job's document; so no
\* two calls of a job are in flight together.
TtsCallsSequential ==
    \A j \in DOMAIN jobs :
        LET ev == hist[j].events
        IN  \A a \in DOMAIN ev :
                ev[a].op = "tts" =>
                    /\ a < Len(ev) => ev[a + 1] = Event("write", ev[a].pos, 0)
                    /\ a = Len(ev) => task[j].pc \in {"tts_wait", "finished"}
                    /\ \A b \in DOMAIN ev :
                          (a < b /\ ev[b].op = "tts") =>
                              /\ ev[b].pos # ev[a].pos
                              /\ \E w \in Between(j, a, b, "write", ev[a].pos),
                                    p \in Between(j, a, b, "probe", ev[a].pos),
                                    d \in Between(j, a, b, "done", ev[a].pos) :
                                    w < p /\ p < d
                              /\ ev[a].pos # <<0, 0>> =>
                                    IsSet(Draft(j).scriptGroups[ev[a].pos[1]]
                                             .items[ev[a].pos[2]].voiceSec)

\* the TTS calls of two jobs are in flight together; one of the jobs is at
\* its second item, the first being written, probed and completed
TwoJobsInFlight ==
    /\ DOMAIN jobs = {1, 2}
    /\ \A j \in {1, 2} :
          /\ task[j].pc = "tts_wait"
          /\ hist[j].events[Len(hist[j].events)].op = "tts"
    /\ \E j \in {1, 2} :
          hist[j].events = <<Event("tts", <<1, 1>>, 0), Event("write", <<1, 1>>, 0),
                             Event("probe", <<1, 1>>, 0), Event("done", <<1, 1>>, 1),
                             Event("tts", <<1, 2>>, 0)>>

\* C21: a job whose render command exited non-zero, or exited zero without
\* the output file at the templated path, is failed and has no result; a
\* done job has a videoPath only if its render command exited zero, and then
\* the path is the templated one and the file exists.
RenderFailureFailsJob ==
    \A j \in DOMAIN jobs :
        LET produced == VIDEO_OUT_DIR \o <<jobs[j].request.videoId \o ".mp4">>
        IN  /\ hist[j].render_exit = Some("nonzero") =>
                  jobs[j].status = "failed" /\ jobs[j].result = None
            /\ (hist[j].render_exit = Some("zero") /\ ~Exists(produced)) =>
                  jobs[j].status = "failed" /\ jobs[j].result = None
            /\ (jobs[j].status = "done" /\ IsSet(Val(jobs[j].result).videoPath)) =>
                  /\ hist[j].render_exit = Some("zero")
                  /\ Val(jobs[j].result).videoPath = Some(produced)
                  /\ Exists(produced)

\* a job failed because its render command exited zero without producing the
\* output; the parameter document had been written
RenderOutputMissing ==
    \E j \in DOMAIN jobs :
        /\ hist[j].render_exit = Some("zero")
        /\ jobs[j].status = "failed"
        /\ Val(jobs[j].error).message = "Remotion output not found"
        /\ jobs[j].result = None
        /\ IsSet(hist[j].persisted)

\* the step answers a submission for a video id of which a job has failed
AnswersResubmission ==
    /\ IsSet(response')
    /\ Val(response').op = "create_job"
    /\ \E j \in DOMAIN jobs :
          /\ jobs[j].status = "failed"
          /\ jobs[j].request.videoId = Val(Val(response').request.body).videoId

\* the parameter file or the output video of the video id exists
ArtifactsExist(video_id) ==
    \/ Exists(PROJECTS_ROOT \o <<video_id, "parameter.json">>)
    \/ Exists(VIDEO_OUT_DIR \o <<video_id \o ".mp4">>)

\* nothing of a failed job changes in the step
FailedJobsFrozen ==
    \A j \in DOMAIN jobs :
        jobs[j].status = "failed" =>
            jobs'[j] = jobs[j] /\ task'[j] = task[j] /\ hist'[j] = hist[j]

\* C22 as stated: nothing of a failed job changes any more, and a submission
\* with overwrite = false for a video id of which a job has failed is
\* answered with the conflict error.
ResubmissionNeedsOverwrite ==
    [][/\ FailedJobsFrozen
       /\ (AnswersResubmission /\ ~Val(Val(response').request.body).options.overwrite)
             => Val(response').status_code = 409]_vars

\* C22: nothing of a failed job changes any more (no stage is run again), and
\* a submission for a video id of which a job has failed is accepted when it
\* carries overwrite = true or when neither the parameter file nor the output
\* video of that id exists, and is answered with the conflict error otherwise.
ResubmissionFollowsArtifacts ==
    [][/\ FailedJobsFrozen
       /\ AnswersResubmission =>
             LET req == Val(Val(response').request.body)
             IN  Val(response').status_code =
                    IF req.options.overwrite \/ ~ArtifactsExist(req.videoId)
                    THEN 202 ELSE 409]_vars

\* a submission with overwrite = false has been accepted after a job of the
\* same video id failed before writing its parameter file
ResubmittedWithoutOverwrite ==
    /\ IsSet(response)
    /\ Val(response).op = "create_job"
    /\ Val(response).status_code = 202
    /\ ~Val(Val(response).request.body).options.overwrite
    /\ Len(jobs) = 2
    /\ jobs[1].status = "failed"
    /\ ~IsSet(hist[1].persisted)
    /\ jobs[1].request.videoId = jobs[2].request.videoId
    /\ jobs[2].status = "queued"

\* a submission with overwrite = false has been rejected after a job of the
\* same video id failed in its render, the parameter file being written
RejectedAfterRenderFailure ==
    /\ IsSet(response)
    /\ Val(response).op = "create_job"
    /\ Val(response).status_code = 409
    /\ ~Val(Val(response).request.body).options.overwrite
    /\ Len(jobs) = 1
    /\ jobs[1].status = "failed"
    /\ IsSet(hist[1].persisted)

\* the largest group and item number of the derived names compared
MaxIndex == 12

\* the two-digit numerals of 1..12
TwoDigits == <<"01", "02", "03", "04", "05", "06", "07", "08", "09", "10", "11", "12">>

\* the derived name of the item at the 1-based position <<g, i>>
DerivedName(video_id, pos) ==
    <<"media", "audio",
      video_id \o "-" \o TwoDigits[pos[1]] \o "-" \o TwoDigits[pos[2]] \o ".wav">>

\* the names _default_voice_name derives for the positions up to MaxIndex
DerivedNames ==
    {DefaultVoiceName("abc", g - 1, i - 1) : g \in 1..MaxIndex, i \in 1..MaxIndex}

\* the synthesis stage of job j has completed without failure
StageCompleted(j) ==
    task[j].pc \in {"param", "write", "render_wait"} \/ IsSet(hist[j].persisted)

\* C23: once the synthesis stage of a job has completed, the voice of every
\* item with non-blank text is the (non-empty) voice path it was submitted
\* with, and otherwise media/audio/<video id>-GG-II.wav with the 1-based,
\* two-digit group and item numbers; the derived names of distinct positions
\* are distinct.
VoiceNamed ==
    /\ \A j \in DOMAIN jobs :
          StageCompleted(j) =>
              LET doc == jobs[j].request.parameter
              IN  \A pos \in Positions(doc) :
                      ~BlankAt(doc, pos) =>
                          LET submitted == doc.scriptGroups[pos[1]].items[pos[2]].voice
                          IN  Draft(j).scriptGroups[pos[1]].items[pos[2]].voice =
                                 IF IsSet(submitted) /\ Val(submitted) # <<>>
                                 THEN submitted
                                 ELSE Some(DerivedName(jobs[j].request.videoId, pos))
    /\ Cardinality(DerivedNames) = MaxIndex * MaxIndex

\* a done job of video abc: the first item of its group keeps the voice path
\* it came with, the third (group index 0, item index 2) is named
\* media/audio/abc-01-03.wav
ThirdItemNamed ==
    \E j \in DOMAIN jobs :
        /\ jobs[j].status = "done"
        /\ jobs[j].request.videoId = "abc"
        /\ Len(jobs[j].request.parameter.scriptGroups) = 1
        /\ Len(jobs[j].request.parameter.scriptGroups[1].items) = 3
        /\ jobs[j].request.parameter.scriptGroups[1].items[3].voice = None
        /\ LET items == Val(hist[j].persisted).scriptGroups[1].items
           IN  /\ items[1].voice = Some(<<"abc", "etc">>)
               /\ items[3].voice = Some(<<"media", "audio", "abc-01-03.wav">>)

\* every script item of the job's document has a voiceSec of at least 0
ItemDurationsSet(j) ==
    \A pos \in Positions(Draft(j)) :
        LET voiceSec == Draft(j).scriptGroups[pos[1]].items[pos[2]].voiceSec
        IN  IsSet(voiceSec) /\ Val(voiceSec) >= 0

\* C24 as stated: when the synthesis stage of a job has completed, every
\* script item has a voiceSec that is set and non-negative, and the
\* durationSec the timing resolver has set on scene 0 of the persisted
\* document is non-negative.
DurationsNonNegative ==
    \A j \in DOMAIN jobs :
        /\ StageCompleted(j) => ItemDurationsSet(j)
        /\ (IsSet(hist[j].persisted) /\ HookComputable(Val(hist[j].persisted))) =>
              Val(Val(hist[j].persisted).scenes[1].durationSec) >= 0

\* C24, the part that holds: when the synthesis stage of a job has
\* completed, every script item has a voiceSec that is set and non-negative.
ItemDurationsNonNegative ==
    \A j \in DOMAIN jobs : StageCompleted(j) => ItemDurationsSet(j)

\* a done job whose document has items with and without text, all with a
\* voiceSec, and a scene 0 of 6.3 s
StageLeftDurations ==
    \E j \in DOMAIN jobs :
        /\ jobs[j].status = "done"
        /\ ItemDurationsSet(j)
        /\ \E p, q \in Positions(Draft(j)) :
              /\ BlankAt(Draft(j), p) /\ ~BlankAt(Draft(j), q)
              /\ Draft(j).scriptGroups[q[1]].items[q[2]].voiceSec = Some(2000)
        /\ IsSet(Draft(j).scenes[1].durationSec)

\* the duration scene 0's audio descriptor of a document states
StatedDuration(parameter) == parameter.scenes[1].audio.durationSec

\* the hook duration the policy of the first group's items gives
PolicyDuration(parameter) ==
    LET first_group == parameter.scriptGroups[1]
    IN  HookPolicy([i \in 1..Len(first_group.items) |-> CountedSec(first_group.items[i])],
                   first_group.gapSec)

RecordedTwoSeconds ==
    \E j \in DOMAIN jobs :
        /\ jobs[j].status = "done"
        /\ HookRequired(jobs[j].request.parameter)
        /\ StatedDuration(jobs[j].request.parameter) = None
        /\ StatedDuration(Val(hist[j].persisted)) = Some(2000)
        /\ Val(jobs[j].result).hookSec = Some(2000)

\* a done job whose descriptor states 0: hookSec is the 6.3 s of the items
StatedZeroRecomputed ==
    \E j \in DOMAIN jobs :
        /\ jobs[j].status = "done"
        /\ HookComputable(Val(hist[j].persisted))
        /\ StatedDuration(Val(hist[j].persisted)) = Some(0)
        /\ Val(jobs[j].result).hookSec = Some(6300)

\* C26 as stated: the hookSec of a done job is at least the minimum hook
\* duration of 3.0 s and is scene 0's durationSec in the persisted document.
HookAtLeastMinimum ==
    \A j \in DOMAIN jobs :
        (jobs[j].status = "done" /\ IsSet(Val(jobs[j].result).hookSec)) =>
            /\ Val(Val(jobs[j].result).hookSec) >= 3000
            /\ Val(hist[j].persisted).scenes[1].durationSec = Val(jobs[j].result).hookSec

\* C26: the hookSec of a done job is scene 0's durationSec in the persisted
\* document, for documents whose scene 0 has text and for the others; it is
\* at least the minimum hook duration of 3.0 s when scene 0's audio
\* descriptor states no duration or zero, and it is the stated duration
\* otherwise, which may be less.
HookEqualsSceneDuration ==
    \A j \in DOMAIN jobs :
        (jobs[j].status = "done" /\ IsSet(Val(jobs[j].result).hookSec)) =>
            LET parameter == Val(hist[j].persisted)
                hookSec == Val(jobs[j].result).hookSec
            IN  /\ parameter.scenes # <<>>
                /\ parameter.scenes[1].durationSec = hookSec
                /\ IF NoStatedDuration(parameter) \/ StatedDuration(parameter) = Some(0)
                   THEN Val(hookSec) >= 3000
                   ELSE hookSec = StatedDuration(parameter)

\* a done job whose scene 0 has text and came without a stated duration: the
\* hook audio was synthesized and probed at 2.0 s, and both hookSec and scene
\* 0's durationSec are 2.0, below the minimum
HookBelowMinimum ==
    \E j \in DOMAIN jobs :
        /\ jobs[j].status = "done"
        /\ HookRequired(jobs[j].request.parameter)
        /\ jobs[j].request.options.generateAudio
        /\ jobs[j].request.parameter.scenes[1].audio = NoAudio
        /\ FsOp("write", PrestagedHook) \in hist[j].fsops
        /\ Val(jobs[j].result).hookSec = Some(2000)
        /\ Val(hist[j].persisted).scenes[1].durationSec = Some(2000)

\* the voiceSec of the item at pos in a document
VoiceSecAt(parameter, pos) == parameter.scriptGroups[pos[1]].items[pos[2]].voiceSec

\* the text of the item at pos in a document
TextAt(parameter, pos) == parameter.scriptGroups[pos[1]].items[pos[2]].text

\* C27 as stated: an item with non-blank text submitted with a voiceSec has
\* that voiceSec when the synthesis stage has completed.
VoiceSecWriteOnce ==
    \A j \in DOMAIN jobs :
        StageCompleted(j) =>
            \A pos \in Positions(jobs[j].request.parameter) :
                (/\ ~BlankAt(jobs[j].request.parameter, pos)
                 /\ IsSet(VoiceSecAt(jobs[j].request.parameter, pos))) =>
                    VoiceSecAt(Draft(j), pos) = VoiceSecAt(jobs[j].request.parameter, pos)

\* C27: when the synthesis stage has completed, the voiceSec of every item
\* is the one the stage determined, whatever the item was submitted with: 0
\* for an item without text, and for the others the duration the probe
\* reported or the estimate from the text.
VoiceSecReassigned ==
    \A j \in DOMAIN jobs :
        StageCompleted(j) =>
            \A pos \in Positions(jobs[j].request.parameter) :
                IF BlankAt(jobs[j].request.parameter, pos)
                THEN VoiceSecAt(Draft(j), pos) = Some(0)
                ELSE VoiceSecAt(Draft(j), pos) \in
                        {Some(d) : d \in ProbeDurations}
                        \cup {Some(EstimateVoiceSec(TextAt(jobs[j].request.parameter, pos)))}

\* a done job whose first item was submitted with text and a voiceSec of
\* 5.0 s: the persisted document says 2.0 s, the duration probed
SubmittedVoiceSecReplaced ==
    \E j \in DOMAIN jobs :
        /\ jobs[j].status = "done"
        /\ <<1, 1>> \in Positions(jobs[j].request.parameter)
        /\ ~BlankAt(jobs[j].request.parameter, <<1, 1>>)
        /\ VoiceSecAt(jobs[j].request.parameter, <<1, 1>>) = Some(5000)
        /\ VoiceSecAt(Val(hist[j].persisted), <<1, 1>>) = Some(2000)

\* the estimate max(0.4, characters / 8) of a stripped text, in ms
Estimate(text) ==
    LET characters == Len(Strip(text))
    IN  IF characters = 0 THEN 0
        ELSE IF characters * 125 > 400 THEN characters * 125 ELSE 400

\* the item at pos has the estimate of its text as voiceSec
EstimatedAt(j, pos) ==
    VoiceSecAt(Draft(j), pos) = Some(Estimate(Val(TextAt(Draft(j), pos))))

\* C28 as stated: a probe of an item's artifact that fails because the file
\* is missing leaves the estimate of the item's text as its duration and does
\* not fail the job at that item; every other failure of a probe fails the
\* job.
OnlyMissingFileEstimated ==
    \A j \in DOMAIN jobs :
        \A f \in hist[j].probe_failures :
            IF f.cause = "notfound"
            THEN f.pos # <<0, 0>> => EstimatedAt(j, f.pos)
            ELSE jobs[j].status = "failed"

\* the part of C28 that holds: a probe that raises FileNotFoundError, for a
\* missing file or a missing probe executable, leaves the estimate of the
\* item's text as its duration; a non-zero exit or an unparsable output
\* fails the job with the probe's error.
FileNotFoundEstimated ==
    \A j \in DOMAIN jobs :
        \A f \in hist[j].probe_failures :
            IF f.cause \in {"notfound", "noexec"}
            THEN f.pos # <<0, 0>> => EstimatedAt(j, f.pos)
            ELSE /\ jobs[j].status = "failed"
                 /\ Val(jobs[j].error).message = "ffprobe failed"

\* a done job whose probe found no executable: the 24 characters of its
\* second item are estimated at 3.0 s
DoneWithoutProbeExecutable ==
    \E j \in DOMAIN jobs :
        /\ jobs[j].status = "done"
        /\ [pos |-> <<1, 2>>, cause |-> "noexec"] \in hist[j].probe_failures
        /\ TextAt(Draft(j), <<1, 2>>) = Some(Text24)
        /\ VoiceSecAt(Draft(j), <<1, 2>>) = Some(3000)

\* the render spec has one of the defects of the fallback: fps zero, an fps
\* or a frame count that is not a number, or no frame count
SpecDefective(spec) ==
    \/ spec.fps \in {Num(0), NotANumber}
    \/ spec.durationInFrames \in {NotANumber, Absent}

\* C29: once the document of a job is written and its scene durations sum to
\* zero, so that the fallback frames / fps is used, no render spec fails the
\* job: without a render call the job is done, whatever the fps and the frame
\* count are; and with an fps of zero, an fps or a frame count that is not a
\* number, or no frame count, the result has no totalSec.
RenderSpecNeverFails ==
    \A j \in DOMAIN jobs :
        (IsSet(hist[j].persisted) /\ ScenesSum(Val(hist[j].persisted).scenes) = 0) =>
            /\ hist[j].render_calls = 0 => jobs[j].status = "done"
            /\ jobs[j].status = "failed" => hist[j].render_exit # None
            /\ (jobs[j].status = "done" /\ SpecDefective(Val(hist[j].persisted).spec)) =>
                  Val(jobs[j].result).totalSec = None

\* a done job without scene durations whose render spec says 900 frames at
\* 0 fps: the division by zero is absorbed and the result has no totalSec
DoneWithZeroFps ==
    \E j \in DOMAIN jobs :
        /\ jobs[j].status = "done"
        /\ IsSet(hist[j].persisted)
        /\ ScenesSum(Val(hist[j].persisted).scenes) = 0
        /\ Val(hist[j].persisted).spec = [fps |-> Num(0), durationInFrames |-> Num(900)]
        /\ Val(jobs[j].result).totalSec = None

\* the object of a TTS call of a request: the hook scene or the item at pos
SpokenObject(req, pos) ==
    IF pos = <<0, 0>> THEN req.parameter.scenes[1]
    ELSE req.parameter.scriptGroups[pos[1]].items[pos[2]]

\* the default key of a TTS call: "hook" for the hook scene, the speaker key
\* of an item
DefaultKey(req, pos) ==
    IF pos = <<0, 0>> THEN Some("hook") ELSE SpokenObject(req, pos).speaker

\* the preset called name of a request, as an optional settings object: the
\* one of the request when it has one, else the one of the document
PresetNamed(req, name) ==
    LET section == req.parameter.vars
    IN  IF ~IsSet(name) THEN None
        ELSE IF IsSet(req.voicePresets) /\ Val(name) \in DOMAIN Val(req.voicePresets)
        THEN Some(Val(req.voicePresets)[Val(name)].items)
        ELSE IF /\ IsSet(section) /\ IsSet(Val(section).voicePresets)
                /\ Val(name) \in DOMAIN Val(Val(section).voicePresets)
                /\ Val(Val(section).voicePresets)[Val(name)].kind = "dict"
        THEN Some(Val(Val(section).voicePresets)[Val(name)].items)
        ELSE None

\* the four sources of the settings of a TTS call, as optional settings
\* objects
InlineSource(req, pos) == SpokenObject(req, pos).extra.voiceTts
NamedSource(req, pos) == PresetNamed(req, SpokenObject(req, pos).extra.voicePreset)
OverrideSource(req, pos) == PresetNamed(req, SpokenObject(req, pos).extra.voiceSpeaker)
KeySource(req, pos) == PresetNamed(req, DefaultKey(req, pos))

Supplies(source, key) == IsSet(source) /\ key \in DOMAIN Val(source)

RECURSIVE FirstSupplied(_, _)
\* the value of key in the first of the sources that supplies it
FirstSupplied(sources, key) ==
    IF Supplies(Head(sources), key) THEN Val(Head(sources))[key]
    ELSE FirstSupplied(Tail(sources), key)

SettingsKeys == {"speedScale", "pitchScale", "volumeScale", "speakerId"}

\* the value a TTS call uses for a settings key it has
Used(call, key) == IF key = "speakerId" THEN call.speaker_id ELSE call.settings[key]

\* the sources in the order of C30: the override's preset before the key's
OverrideBeforeKey(req, pos) ==
    <<InlineSource(req, pos), NamedSource(req, pos), OverrideSource(req, pos),
      KeySource(req, pos)>>

\* the sources in the order of the code: the key's preset before the
\* override's
KeyBeforeOverride(req, pos) ==
    <<InlineSource(req, pos), NamedSource(req, pos), KeySource(req, pos),
      OverrideSource(req, pos)>>

\* every settings key that two or more of the sources supply is used by
\* every TTS call with the value of the first of the sources that supplies
\* it, the sources being in the order of C30 (overrideFirst) or of the code
UsesFirstOf(overrideFirst) ==
    \A j \in DOMAIN jobs :
        \A call \in hist[j].tts_calls :
            \A key \in SettingsKeys :
                LET sources == IF overrideFirst
                               THEN OverrideBeforeKey(jobs[j].request, call.pos)
                               ELSE KeyBeforeOverride(jobs[j].request, call.pos)
                IN  Cardinality({n \in 1..Len(sources) : Supplies(sources[n], key)}) >= 2
                    => Used(call, key) = FirstSupplied(sources, key)

\* C30 as stated: for a settings key supplied by more than one source, a TTS
\* call uses the value of the inline settings object first, else of the named
\* preset, else of the voice-identity preset: the preset of the voiceSpeaker
\* override when the object has one, else the preset of the item's speaker
\* key or of the hook key; a preset of the job request replaces the document
\* preset of the same name.
OverridePresetFirst == UsesFirstOf(TRUE)

\* what holds instead: the preset of the speaker key (or of the hook key) is
\* merged in after the preset of the voiceSpeaker override, so that for a key
\* both supply, the value of the speaker key's preset is used.
KeyPresetFirst == UsesFirstOf(FALSE)

\* a TTS call of an item with voiceSpeaker "narrator" and speaker key
\* "left", both with a document preset for volumeScale (3 and 4): the call
\* uses 4, the value of the speaker key's preset
SpeakerKeyWins ==
    \E j \in DOMAIN jobs :
        \E call \in hist[j].tts_calls :
            /\ call.pos = <<1, 1>>
            /\ SpokenObject(jobs[j].request, call.pos).extra.voiceSpeaker = Some("narrator")
            /\ SpokenObject(jobs[j].request, call.pos).speaker = Some("left")
            /\ OverrideSource(jobs[j].request, call.pos)
                  = Some(("speedScale" :> 3) @@ ("pitchScale" :> 3) @@ ("volumeScale" :> 3))
            /\ Supplies(KeySource(jobs[j].request, call.pos), "volumeScale")
            /\ "volumeScale" \in DOMAIN call.settings
            /\ call.settings["volumeScale"] = 4

\* a TTS call whose named preset "soft" is in the document (speedScale 2,
\* pitchScale 2) and in the request (pitchScale 6): the request's preset
\* replaces the document's, whose speedScale is not used
RequestPresetReplaces ==
    \E j \in DOMAIN jobs :
        \E call \in hist[j].tts_calls :
            LET req == jobs[j].request
            IN  /\ call.pos = <<1, 1>>
                /\ SpokenObject(req, call.pos).extra = Extra(None, Some("soft"), None)
                /\ SpokenObject(req, call.pos).speaker = None
                /\ req.parameter.vars = Some([voicePresets |-> Some(DocumentPresets)])
                /\ req.voicePresets = Some("soft" :> Dict("pitchScale" :> 6))
                /\ call.settings = ("pitchScale" :> 6)

\* the audio files a job has written and, once written, its parameter file
WrittenBy(j) ==
    {op.path : op \in {o \in hist[j].fsops : o.op \in {"write", "write_param"}}}

\* the audio files a job has written
AudioWrittenBy(j) == {op.path : op \in {o \in hist[j].fsops : o.op = "write"}}

\* a and b are jobs for the same video id and the same document, b accepted
\* after a, with generateAudio
Resubmitted(a, b) ==
    /\ a < b
    /\ jobs[b].request.videoId = jobs[a].request.videoId
    /\ jobs[b].request.parameter = jobs[a].request.parameter
    /\ jobs[b].request.options.generateAudio

\* C31: no step removes a file or a directory; every audio file a failed job
\* has written is there, and so is its parameter file when it failed in the
\* render stage; and a later job for the same video id and document with
\* generateAudio, once it is through its synthesis stage, has written every
\* audio file the failed job had written.
FailureLeavesArtifacts ==
    [][/\ files \subseteq files' /\ dirs \subseteq dirs'
       /\ \A j \in DOMAIN jobs' :
             jobs'[j].status = "failed" =>
                /\ WrittenBy(j)' \subseteq files'
                /\ hist'[j].render_calls > 0 =>
                      ParameterPath(jobs'[j].request.videoId).path \in files'
       /\ \A a, b \in DOMAIN jobs' :
             (/\ Resubmitted(a, b)' /\ jobs'[a].status = "failed"
              /\ jobs'[b].status = "done") =>
                AudioWrittenBy(a)' \subseteq AudioWrittenBy(b)']_vars

\* a job that failed at the probe of the audio file it had written, and a
\* later job for the same video id that is done and has written that file
\* again
FailedAudioOverwritten ==
    \E a, b \in DOMAIN jobs :
        /\ Resubmitted(a, b)
        /\ jobs[a].status = "failed" /\ jobs[b].status = "done"
        /\ AudioWrittenBy(a) # {}
        /\ AudioWrittenBy(a) \subseteq AudioWrittenBy(b) \cap files

\* a job that failed in the render stage: its audio file and its parameter
\* file are there
RenderFailedArtifactsKept ==
    \E j \in DOMAIN jobs :
        /\ jobs[j].status = "failed" /\ hist[j].render_calls = 1
        /\ AudioWrittenBy(j) # {}
        /\ WrittenBy(j) \subseteq files
        /\ ParameterPath(jobs[j].request.videoId).path \in WrittenBy(j)

\* the number of script items of all groups of a document, plus one when its
\* scene 0 has a text that is not empty
ArtifactCount(parameter) ==
    Cardinality(Positions(parameter))
    + (IF /\ parameter.scenes # <<>>
          /\ IsSet(parameter.scenes[1].text)
          /\ Len(Val(parameter.scenes[1].text)) > 0
       THEN 1 ELSE 0)

\* the step publishes ttsDone for job j: a "done" event is logged
PublishesDone(j) ==
    /\ Len(hist'[j].events) > Len(hist[j].events)
    /\ hist'[j].events[Len(hist'[j].events)].op = "done"

\* C32: the ttsTotal of a job is the number of script items of all groups of
\* its document, with or without text, plus one when scene 0 has non-empty
\* text; it is published together with ttsDone = 0 and never changes; every
\* later publication of ttsDone raises it by exactly one and nothing else
\* changes it; and in the stages param-building, rendering and finishing
\* ttsDone equals ttsTotal.
ProgressCountsArtifacts ==
    [][\A j \in DOMAIN jobs :
          LET before == jobs[j].progress
              after == jobs'[j].progress
          IN  /\ "ttsTotal" \in DOMAIN after =>
                    /\ after.ttsTotal = ArtifactCount(jobs'[j].request.parameter)
                    /\ "ttsDone" \in DOMAIN after
              /\ "ttsTotal" \in DOMAIN before =>
                    /\ "ttsTotal" \in DOMAIN after /\ after.ttsTotal = before.ttsTotal
                    /\ after.ttsDone = IF PublishesDone(j) THEN before.ttsDone + 1
                                       ELSE before.ttsDone
              /\ ("ttsTotal" \notin DOMAIN before /\ "ttsTotal" \in DOMAIN after) =>
                    after.ttsDone = 0
              /\ after.stage \in {"param-building", "rendering", "finishing"} =>
                    /\ "ttsTotal" \in DOMAIN after
                    /\ after.ttsDone = after.ttsTotal]_vars

\* a done job whose document has two items with text and one blank item:
\* ttsTotal and ttsDone are 3
ThreeArtifactsDone ==
    \E j \in DOMAIN jobs :
        LET parameter == jobs[j].request.parameter
        IN  /\ jobs[j].status = "done"
            /\ parameter.scenes # <<>>
            /\ Cardinality(Positions(parameter)) = 3
            /\ \E pos \in Positions(parameter) : BlankAt(parameter, pos)
            /\ "ttsTotal" \in DOMAIN jobs[j].progress
            /\ jobs[j].progress.ttsTotal = 3
            /\ jobs[j].progress.ttsDone = 3

\* the stages of each status
StagesOf(status) ==
    CASE status = "queued" -> {"waiting"}
      [] status = "running" -> {"tts", "param-building", "rendering"}
      [] status = "done" -> {"finishing"}
      [] status = "failed" -> {"failed"}

\* C33: in every snapshot a request returns, and in every snapshot a request
\* could return, the stage is waiting exactly when the status is queued, one
\* of tts, param-building and rendering exactly when it is running, finishing
\* exactly when it is done, and failed exactly when it is failed.
StageMatchesStatus ==
    /\ \A s \in Snapshots(response) :
          s.status \in Statuses /\ s.progress.stage \in StagesOf(s.status)
    /\ \A j \in DOMAIN jobs :
          LET s == JobSummary(jobs[j])
          IN  s.status \in Statuses /\ s.progress.stage \in StagesOf(s.status)

\* a listing that shows a failed job in stage failed next to a running job
\* in stage rendering
FailedBesideRendering ==
    \E a, b \in Snapshots(response) :
        /\ a.status = "failed" /\ a.progress.stage = "failed"
        /\ b.status = "running" /\ b.progress.stage = "rendering"

\* job j is queued or running
InFlight(j) == jobs[j].status \in {"queued", "running"}

\* C34 as stated: no two jobs for the same video id, both submitted with
\* overwrite = false, are queued or running at the same time.
NoTwoUncheckedInFlight ==
    \A a, b \in DOMAIN jobs :
        (/\ a # b
         /\ jobs[a].request.videoId = jobs[b].request.videoId
         /\ ~jobs[a].request.options.overwrite
         /\ ~jobs[b].request.options.overwrite) =>
            ~(InFlight(a) /\ InFlight(b))

\* what holds instead: a submission with overwrite = false is accepted
\* exactly when neither the parameter file nor the output video of its video
\* id exists at that moment, whatever the jobs of the registry are doing.
ConflictFollowsFiles ==
    [][(/\ IsSet(response')
        /\ Val(response').op = "create_job"
        /\ ~Val(Val(response').request.body).options.overwrite) =>
           (Val(response').status_code = 409
              <=> ArtifactsExist(Val(Val(response').request.body).videoId))]_vars

\* two jobs for the same video id, both submitted with overwrite = false,
\* the first still in its synthesis stage when the second is accepted
TwoUncheckedInFlight ==
    \E a, b \in DOMAIN jobs :
        /\ a < b
        /\ jobs[a].request.videoId = jobs[b].request.videoId
        /\ ~jobs[a].request.options.overwrite /\ ~jobs[b].request.options.overwrite
        /\ jobs[a].status = "running" /\ jobs[a].progress.stage = "tts"
        /\ jobs[b].status = "queued"
        /\ IsSet(response) /\ Val(response).op = "create_job"
        /\ Val(response).status_code = 202

\* the positions of the artifacts that are synthesized: the items whose text
\* is not blank and, when scene 0 has a text, the hook scene
Synthesized(parameter) ==
    {pos \in Positions(parameter) : ~BlankAt(parameter, pos)}
    \cup (IF /\ parameter.scenes # <<>>
             /\ IsSet(parameter.scenes[1].text)
             /\ Len(Val(parameter.scenes[1].text)) > 0
          THEN {<<0, 0>>} ELSE {})

\* the TTS calls of job j, as a set of <<index, event>>
TtsCalls(j) == {e \in EventsOf(j) : e[2].op = "tts"}

\* C35: a job with generateAudio = false issues no TTS call and writes no
\* audio file; a job with generateAudio = true issues at most one TTS call
\* per artifact, only for items with non-blank text and for the hook scene
\* when scene 0 has text, and once its synthesis stage is over it has issued
\* exactly one for each of them, the items submitted with a voice path
\* included.
OneTtsCallPerArtifact ==
    \A j \in DOMAIN jobs :
        LET parameter == jobs[j].request.parameter
            called == {e[2].pos : e \in TtsCalls(j)}
        IN  IF ~jobs[j].request.options.generateAudio
            THEN /\ TtsCalls(j) = {}
                 /\ hist[j].tts_calls = {}
                 /\ \A op \in hist[j].fsops : op.op \notin {"write", "write_failed"}
            ELSE /\ called \subseteq Synthesized(parameter)
                 /\ Cardinality(TtsCalls(j)) = Cardinality(called)
                 /\ jobs[j].progress.stage \in {"param-building", "rendering", "finishing"}
                       => called = Synthesized(parameter)

\* a done job with generateAudio whose first item arrived with a voice path:
\* the first and the third item have one TTS call each, the blank second
\* item has none
PresetVoiceSynthesized ==
    \E j \in DOMAIN jobs :
        /\ jobs[j].status = "done"
        /\ jobs[j].request.options.generateAudio
        /\ jobs[j].request.parameter = DocThree
        /\ IsSet(DocThree.scriptGroups[1].items[1].voice)
        /\ {e[2].pos : e \in TtsCalls(j)} = {<<1, 1>>, <<1, 3>>}
        /\ Cardinality(TtsCalls(j)) = 2

\* a done job without generateAudio whose audio was staged beforehand:
\* no TTS call, no audio written
DoneWithoutSynthesis ==
    \E j \in DOMAIN jobs :
        /\ jobs[j].status = "done"
        /\ ~jobs[j].request.options.generateAudio
        /\ Synthesized(jobs[j].request.parameter) # {}
        /\ TtsCalls(j) = {}
        /\ \E op \in hist[j].fsops : op.op = "probe"

====
